---- MODULE Spec2Model ----
(***************************************************************************)
(* The transaction pipeline of yasher3413/transaction-processing-system:   *)
(* the API service's CreateTransaction (transaction row + outbox row in    *)
(* one database transaction), the outbox publisher (publishBatch), the     *)
(* Kafka topic, and the worker (processMessage / ProcessTransactionCreated)*)
(* with the PostgreSQL tables they share.                                  *)
(*                                                                         *)
(* Database transactions are modelled with private write sets that become  *)
(* visible at commit, row locks held until commit or rollback, and the     *)
(* SERIALIZABLE rule that a row changed by a transaction that committed    *)
(* after the reader's snapshot cannot be locked or updated (error 40001).  *)
(***************************************************************************)
EXTENDS Integers, Sequences, FiniteSets, TLC

\* ------------------------------------------------------------------ bounds
\* Number of uuid.New()/time.Now() pairs the API service hands out.
MaxTx == 2
\* Number of envelope ids (uuid.New()) the publisher hands out: messages
\* written to the topic.
MaxEvents == 3
\* Largest amount_cents a request carries.
MaxAmount == 2
\* Width in bits of int64 and BIGINT in the model: amounts and balances lie
\* in -2^(IntBits-1) .. 2^(IntBits-1) - 1.
IntBits == 8
\* batchSize of the publisher (PUBLISHER_BATCH_SIZE).
BatchSize == 2
\* maxRetries handed to NewKafkaConsumer by the worker's main.
MaxRetries == 5
\* retryBackoff handed to NewKafkaConsumer by the worker's main, in seconds.
RetryBackoff == 2
\* Largest publish_attempts a row reaches (failed publishes per row).
MaxAttempts == 1
\* Number of messages written to transactions.dlq.
MaxDLQ == 2
\* Number of messages another producer writes to the topic with a body that
\* is not an envelope.
MaxInvalid == 2

AccountIds == {"a1", "a2", "a3"}
Currencies == {"USD", "EUR"}
TxTypes == {"DEBIT", "CREDIT"}
IdemKeys == {"k1", "k2"}
Amounts == 1..MaxAmount
ClientIds == {1, 2}
RelayIds == {1}
\* The publisher replicas of a horizontally scaled deployment.
ReplicaIds == {1, 2}
WorkerIds == {1, 2}
TxIds == 1..MaxTx
\* uuid.New() values of the three id spaces, kept apart.
OutboxId(n) == <<"outbox", n>>
EventId(n) == <<"event", n>>

\* A missing value (sql.ErrNoRows, a nil pointer, an idle slot).
Nil == [nil |-> TRUE]

VARIABLES
    accounts,          \* table accounts: id -> row, or Nil
    transactions,      \* table transactions: id -> row (committed rows only)
    outbox_events,     \* table outbox_events: id -> row (committed rows only)
    processed_events,  \* table processed_events: sequence of committed rows
    nextId,            \* next uuid.New()/time.Now() of the API service
    clients,           \* CreateTransaction calls in flight, per client
    relays,            \* publishBatch in flight, per publisher replica
    nextEventId,       \* next uuid.New() of the publisher
    topic,             \* topic "transactions": sequence of messages
    dlq,               \* topic "transactions.dlq": sequence of messages
    committedOffset,   \* the consumer group's committed offset (next to read)
    workers,           \* processMessage in flight, per worker
    applyLog,          \* history: the apply transactions that committed
    dlqFailed,         \* history: offsets of the messages whose DLQ write failed
                       \* and that have not been delivered again
    signalled          \* the processes whose context SIGTERM has cancelled

dbVars == <<accounts, transactions, outbox_events, processed_events>>
logVars == <<topic, dlq, committedOffset, dlqFailed>>
vars == <<accounts, transactions, outbox_events, processed_events, nextId,
          clients, relays, nextEventId, topic, dlq, committedOffset,
          workers, applyLog, dlqFailed, signalled>>

\* ------------------------------------------------------------------ helpers
Min(a, b) == IF a < b THEN a ELSE b

RECURSIVE SetToSortedSeq(_)
SetToSortedSeq(S) ==
    IF S = {} THEN <<>>
    ELSE LET m == CHOOSE x \in S : \A y \in S : x <= y
         IN <<m>> \o SetToSortedSeq(S \ {m})

Prefix(s, n) == SubSeq(s, 1, Min(n, Len(s)))

\* ------------------------------------------------------------------ schema
\* CREATE TABLE accounts: the account the API created (balance 0, ACTIVE).
NewAccount(currency) ==
    [currency |-> currency, balance_cents |-> 0, status |-> "ACTIVE"]

\* The account row after its status was set to SUSPENDED.
Suspended(acct) == [acct EXCEPT !.status = "SUSPENDED"]

\* The row CreateTransaction inserts: status PENDING, no failure_reason.
NewTransaction(id, req) ==
    [id |-> id, account_id |-> req.account_id, amount_cents |-> req.amount_cents,
     currency |-> req.currency, type |-> req.type, status |-> "PENDING",
     idempotency_key |-> req.idempotency_key, failure_reason |-> Nil,
     created_at |-> id]

\* types.TransactionCreatedPayload built from the inserted row.
TransactionCreatedPayload(t) ==
    [transaction_id |-> t.id, account_id |-> t.account_id,
     amount_cents |-> t.amount_cents, currency |-> t.currency,
     type |-> t.type, idempotency_key |-> t.idempotency_key]

\* The outbox row CreateTransaction inserts for transaction row t.
NewOutboxEvent(id, t) ==
    [id |-> OutboxId(id), aggregate_type |-> "transaction", aggregate_id |-> t.id,
     event_type |-> "transaction.created",
     payload |-> TransactionCreatedPayload(t), status |-> "PENDING",
     created_at |-> t.created_at, publish_attempts |-> 0, last_error |-> Nil]

\* checkQuery of CreateTransaction: the committed rows with this
\* (account_id, idempotency_key).
ExistingTx(account_id, key) ==
    {id \in DOMAIN transactions :
        /\ transactions[id].account_id = account_id
        /\ transactions[id].idempotency_key = key}

\* transactions without its unique constraint: no insert ever conflicts.
UniqueViolationNoConstraint(account_id, key) == FALSE

\* UNIQUE(account_id, idempotency_key): an insert of this pair conflicts with
\* a committed row.
UniqueViolation(account_id, key) == ExistingTx(account_id, key) # {}

\* The context of process p ("publisher" or "worker") has not been cancelled:
\* its Kafka and database calls are not cut short by SIGTERM.
Live(p) == p \notin signalled

\* ------------------------------------------------------------------ ingress
Requests ==
    [account_id : AccountIds, amount_cents : Amounts, currency : Currencies,
     type : TxTypes, idempotency_key : IdemKeys]

\* math.MaxInt64 at the model's width.
MaxInt64 == 2^(IntBits - 1) - 1

\* Go's int64 arithmetic: the result wraps around modulo 2^IntBits.
WrapInt64(x) == ((x + 2^(IntBits - 1)) % 2^IntBits) - 2^(IntBits - 1)

\* Requests on one account whose amounts reach the largest int64.
WideRequests ==
    [account_id : {"a1"}, amount_cents : {1, MaxInt64}, currency : {"USD"},
     type : TxTypes, idempotency_key : IdemKeys]

\* The requests of the calls that overlap: CreateTransaction reads the
\* account, the key and the amount, and only stores type and currency.
OverlapRequests ==
    {req \in Requests : req.type = "CREDIT" /\ req.currency = "USD"}

IdleClient == [pc |-> "idle", req |-> Nil, txID |-> 0, resp |-> Nil]

OkResp(t) == [ok |-> TRUE, id |-> t.id, status |-> t.status, error |-> ""]
ErrResp(msg) == [ok |-> FALSE, id |-> 0, status |-> "", error |-> msg]

\* A CreateTransaction that does not read the account row: only the
\* idempotency lookup and the amount check.
LookupWithoutAccount(req) ==
    LET found == ExistingTx(req.account_id, req.idempotency_key)
    IN IF found # {} THEN OkResp(transactions[CHOOSE id \in found : TRUE])
       ELSE IF req.amount_cents <= 0 THEN ErrResp("amount must be positive")
       ELSE Nil

\* A CreateTransaction that validates the account and the amount before the
\* idempotency lookup.
LookupValidatesFirst(req) ==
    LET found == ExistingTx(req.account_id, req.idempotency_key)
        acct == accounts[req.account_id]
    IN IF acct = Nil THEN ErrResp("account not found")
       ELSE IF acct.status # "ACTIVE" THEN ErrResp("account is not active")
       ELSE IF req.amount_cents <= 0 THEN ErrResp("amount must be positive")
       ELSE IF found # {} THEN OkResp(transactions[CHOOSE id \in found : TRUE])
       ELSE Nil

\* The head of CreateTransaction: the idempotency lookup (an existing row is
\* returned as it is), then the account and amount validation. Nil: the call
\* goes on to the insert.
Lookup(req) ==
    LET found == ExistingTx(req.account_id, req.idempotency_key)
        acct == accounts[req.account_id]
    IN IF found # {} THEN OkResp(transactions[CHOOSE id \in found : TRUE])
       ELSE IF acct = Nil THEN ErrResp("account not found")
       ELSE IF acct.status # "ACTIVE" THEN ErrResp("account is not active")
       ELSE IF req.amount_cents <= 0 THEN ErrResp("amount must be positive")
       ELSE Nil

\* The outbox insert made outside the database transaction and lost: only the
\* transaction row becomes visible.
CommitWritesWithoutOutbox(id, req) ==
    /\ transactions' = (id :> NewTransaction(id, req)) @@ transactions
    /\ UNCHANGED outbox_events

\* tx.Commit() of CreateTransaction: the transaction row and its outbox row
\* become visible together.
CommitWrites(id, req) ==
    /\ transactions' = (id :> NewTransaction(id, req)) @@ transactions
    /\ outbox_events' =
          (OutboxId(id) :> NewOutboxEvent(id, NewTransaction(id, req))) @@ outbox_events

\* CreateTransaction, a whole call that no other call overlaps: the lookup and
\* validation pass, both rows are inserted and committed. (A replay, a
\* validation error and a call that fails on a database error return leaving
\* every table as it is.)
CreateTransaction(req) ==
    /\ \A c \in ClientIds : clients[c].pc = "idle"
    /\ nextId <= MaxTx
    /\ Lookup(req) = Nil
    /\ CommitWrites(nextId, req)
    /\ nextId' = nextId + 1
    /\ UNCHANGED <<accounts, processed_events, clients, relays, nextEventId,
                   logVars, workers, applyLog, signalled>>

\* Another call holds an uncommitted transactions row with the same pair.
InsertBlocked(c) ==
    \E d \in ClientIds \ {c} :
        /\ clients[d].pc \in {"outbox", "commit"}
        /\ clients[d].req.account_id = clients[c].req.account_id
        /\ clients[d].req.idempotency_key = clients[c].req.idempotency_key

\* CreateTransaction of client c, step by step, for calls that overlap.
\* BeginTx, the idempotency lookup, the account and amount validation.
BeginCreate(c, req) ==
    /\ clients[c].pc = "idle"
    /\ clients' = [clients EXCEPT ![c] =
          IF Lookup(req) = Nil
          THEN [pc |-> "insert", req |-> req, txID |-> 0, resp |-> Nil]
          ELSE [pc |-> "done", req |-> req, txID |-> 0, resp |-> Lookup(req)]]
    /\ UNCHANGED <<dbVars, nextId, relays, nextEventId, logVars, workers, applyLog, signalled>>

\* insertTxQuery: txID := uuid.New(), now := time.Now(), INSERT ... RETURNING.
\* On the unique violation the re-read runs in the aborted transaction and
\* fails too, so the call returns "failed to create transaction" wrapping the
\* error of the re-read.
InsertTransaction(c) ==
    /\ clients[c].pc = "insert"
    /\ ~InsertBlocked(c)
    /\ IF UniqueViolation(clients[c].req.account_id, clients[c].req.idempotency_key)
       THEN /\ clients' = [clients EXCEPT ![c].pc = "done",
                  ![c].resp = ErrResp("failed to create transaction: current transaction is aborted")]
            /\ UNCHANGED nextId
       ELSE /\ nextId <= MaxTx
            /\ clients' = [clients EXCEPT ![c].pc = "outbox", ![c].txID = nextId]
            /\ nextId' = nextId + 1
    /\ UNCHANGED <<dbVars, relays, nextEventId, logVars, workers, applyLog, signalled>>

\* An outboxQuery run on the pool instead of the transaction: the outbox row
\* is committed at once, before the transaction row.
InsertOutboxAutocommit(c) ==
    /\ clients[c].pc = "outbox"
    /\ clients' = [clients EXCEPT ![c].pc = "commit"]
    /\ outbox_events' =
          (OutboxId(clients[c].txID) :>
              NewOutboxEvent(clients[c].txID,
                             NewTransaction(clients[c].txID, clients[c].req)))
          @@ outbox_events
    /\ UNCHANGED <<accounts, transactions, processed_events, nextId, relays,
                   nextEventId, logVars, workers, applyLog, signalled>>

\* outboxQuery: the outbox row joins the transaction's write set.
InsertOutbox(c) ==
    /\ clients[c].pc = "outbox"
    /\ clients' = [clients EXCEPT ![c].pc = "commit"]
    /\ UNCHANGED <<dbVars, nextId, relays, nextEventId, logVars, workers, applyLog, signalled>>

\* A CreateTransaction that applies the amount to the account's balance in
\* its own transaction.
CommitCreateAppliesBalance(c) ==
    /\ clients[c].pc = "commit"
    /\ CommitWrites(clients[c].txID, clients[c].req)
    /\ accounts' = [accounts EXCEPT ![clients[c].req.account_id].balance_cents =
                        IF clients[c].req.type = "CREDIT"
                        THEN @ + clients[c].req.amount_cents
                        ELSE @ - clients[c].req.amount_cents]
    /\ clients' = [clients EXCEPT ![c].pc = "done",
          ![c].resp = OkResp(NewTransaction(clients[c].txID, clients[c].req))]
    /\ UNCHANGED <<processed_events, nextId, relays, nextEventId,
                   logVars, workers, applyLog, signalled>>

\* tx.Commit() succeeds and the call returns the inserted row.
CommitCreate(c) ==
    /\ clients[c].pc = "commit"
    /\ CommitWrites(clients[c].txID, clients[c].req)
    /\ clients' = [clients EXCEPT ![c].pc = "done",
          ![c].resp = OkResp(NewTransaction(clients[c].txID, clients[c].req))]
    /\ UNCHANGED <<accounts, processed_events, nextId, relays, nextEventId,
                   logVars, workers, applyLog, signalled>>

\* A database error at the insert, the outbox insert or the commit: the
\* deferred tx.Rollback() discards the write set and the call returns an error.
CreateTransactionError(c) ==
    /\ clients[c].pc \in {"insert", "outbox", "commit"}
    /\ clients' = [clients EXCEPT ![c].pc = "done",
                      ![c].resp = ErrResp("failed to create transaction")]
    /\ UNCHANGED <<dbVars, nextId, relays, nextEventId, logVars, workers, applyLog, signalled>>

\* The handler has written the response: the client may call again.
Respond(c) ==
    /\ clients[c].pc = "done"
    /\ clients' = [clients EXCEPT ![c] = IdleClient]
    /\ UNCHANGED <<dbVars, nextId, relays, nextEventId, logVars, workers, applyLog, signalled>>

\* ------------------------------------------------------------------ relay
IdleRelay == [pc |-> "idle", events |-> <<>>]

\* A SELECT that leaves out the rows whose publish failed before
\* (publish_attempts = 0 only): a failed row is never selected again.
SelectPendingUntried ==
    LET pending == {id \in DOMAIN outbox_events :
                       /\ outbox_events[id].status = "PENDING"
                       /\ outbox_events[id].publish_attempts = 0}
        stamps == {outbox_events[id].created_at : id \in pending}
        byStamp(n) == CHOOSE id \in pending : outbox_events[id].created_at = n
        sorted == SetToSortedSeq(stamps)
    IN Prefix([i \in 1..Len(sorted) |-> byStamp(sorted[i])], BatchSize)

\* A SELECT without WHERE status = 'PENDING': rows of any status, ORDER BY
\* created_at ASC LIMIT batchSize.
SelectAnyStatus ==
    LET stamps == {outbox_events[id].created_at : id \in DOMAIN outbox_events}
        byStamp(n) == CHOOSE id \in DOMAIN outbox_events : outbox_events[id].created_at = n
        sorted == SetToSortedSeq(stamps)
    IN Prefix([i \in 1..Len(sorted) |-> byStamp(sorted[i])], BatchSize)

\* The SELECT of publishBatch: ids of the PENDING rows, ORDER BY created_at
\* ASC LIMIT batchSize. The statement runs outside a transaction, so FOR
\* UPDATE SKIP LOCKED holds no lock once it returns and skips nothing.
SelectPending ==
    LET pending == {id \in DOMAIN outbox_events : outbox_events[id].status = "PENDING"}
        stamps == {outbox_events[id].created_at : id \in pending}
        byStamp(n) == CHOOSE id \in pending : outbox_events[id].created_at = n
        sorted == SetToSortedSeq(stamps)
    IN Prefix([i \in 1..Len(sorted) |-> byStamp(sorted[i])], BatchSize)

\* An envelope built without the extraction of the idempotency key from the
\* payload: the field keeps its initial "".
EnvelopeWithoutKey(eventID, ev) ==
    [event_id |-> eventID, event_type |-> ev.event_type,
     occurred_at |-> ev.created_at, trace_id |-> "",
     idempotency_key |-> "",
     aggregate_id |-> ev.aggregate_id, payload |-> ev.payload]

\* types.EventEnvelope built by publishEvent for outbox row ev.
Envelope(eventID, ev) ==
    [event_id |-> eventID, event_type |-> ev.event_type,
     occurred_at |-> ev.created_at, trace_id |-> "",
     idempotency_key |-> IF ev.event_type = "transaction.created"
                         THEN ev.payload.idempotency_key ELSE "",
     aggregate_id |-> ev.aggregate_id, payload |-> ev.payload]

\* kafka.Message written by publishEvent.
Message(eventID, ev) ==
    [key |-> ev.aggregate_id, value |-> Envelope(eventID, ev),
     headers |-> <<[key |-> "event_type", value |-> ev.event_type],
                   [key |-> "aggregate_id", value |-> ev.aggregate_id]>>]

\* publishBatch on a tick: fetch the pending events.
publishBatch(r) ==
    /\ Live("publisher")
    /\ relays[r].pc = "idle"
    /\ SelectPending # <<>>
    /\ relays' = [relays EXCEPT ![r] = [pc |-> "publish", events |-> SelectPending]]
    /\ UNCHANGED <<dbVars, nextId, clients, nextEventId, logVars, workers, applyLog, signalled>>

\* The rest of the loop over events after the current one.
NextEvent(r) ==
    IF Len(relays[r].events) > 1
    THEN [pc |-> "publish", events |-> Tail(relays[r].events)]
    ELSE IdleRelay

\* publishEvent succeeds: EventID := uuid.New(), the message is acknowledged.
publishEvent(r) ==
    /\ Live("publisher")
    /\ relays[r].pc = "publish"
    /\ nextEventId <= MaxEvents
    /\ topic' = Append(topic, Message(EventId(nextEventId),
                                      outbox_events[Head(relays[r].events)]))
    /\ nextEventId' = nextEventId + 1
    /\ relays' = [relays EXCEPT ![r].pc = "mark"]
    /\ UNCHANGED <<dbVars, nextId, clients, dlq, committedOffset, dlqFailed,
                   workers, applyLog, signalled>>

\* A loop without its 'continue': after the failed publish and
\* updateEventError the row is marked PUBLISHED all the same.
updateEventErrorThenMark(r) ==
    /\ relays[r].pc = "publish"
    /\ outbox_events[Head(relays[r].events)].publish_attempts < MaxAttempts
    /\ outbox_events' = [outbox_events EXCEPT
          ![Head(relays[r].events)].publish_attempts = @ + 1,
          ![Head(relays[r].events)].last_error = "failed to write message",
          ![Head(relays[r].events)].status = "PUBLISHED"]
    /\ relays' = [relays EXCEPT ![r] = NextEvent(r)]
    /\ UNCHANGED <<accounts, transactions, processed_events, nextId, clients,
                   nextEventId, logVars, workers, applyLog, signalled>>

\* A loop that returns on the first failed publish: the rest of the batch is
\* left for the next tick.
updateEventErrorAbortsBatch(r) ==
    /\ relays[r].pc = "publish"
    /\ outbox_events[Head(relays[r].events)].publish_attempts < MaxAttempts
    /\ outbox_events' = [outbox_events EXCEPT
          ![Head(relays[r].events)].publish_attempts = @ + 1,
          ![Head(relays[r].events)].last_error = "failed to write message"]
    /\ relays' = [relays EXCEPT ![r] = IdleRelay]
    /\ UNCHANGED <<accounts, transactions, processed_events, nextId, clients,
                   nextEventId, logVars, workers, applyLog, signalled>>

\* publishEvent fails: updateEventError, then the loop continues.
updateEventError(r) ==
    /\ Live("publisher")
    /\ relays[r].pc = "publish"
    /\ outbox_events[Head(relays[r].events)].publish_attempts < MaxAttempts
    /\ outbox_events' = [outbox_events EXCEPT
          ![Head(relays[r].events)].publish_attempts = @ + 1,
          ![Head(relays[r].events)].last_error = "failed to write message"]
    /\ relays' = [relays EXCEPT ![r] = NextEvent(r)]
    /\ UNCHANGED <<accounts, transactions, processed_events, nextId, clients,
                   nextEventId, logVars, workers, applyLog, signalled>>

\* markAsPublished succeeds.
markAsPublished(r) ==
    /\ Live("publisher")
    /\ relays[r].pc = "mark"
    /\ outbox_events' = [outbox_events EXCEPT
          ![Head(relays[r].events)].status = "PUBLISHED"]
    /\ relays' = [relays EXCEPT ![r] = NextEvent(r)]
    /\ UNCHANGED <<accounts, transactions, processed_events, nextId, clients,
                   nextEventId, logVars, workers, applyLog, signalled>>

\* markAsPublished fails: the error is logged, the row stays PENDING.
markAsPublishedError(r) ==
    /\ relays[r].pc = "mark"
    /\ relays' = [relays EXCEPT ![r] = NextEvent(r)]
    /\ UNCHANGED <<dbVars, nextId, clients, nextEventId, logVars, workers, applyLog, signalled>>

\* The publisher process stops in the middle of a batch and is restarted.
relayRestart(r) ==
    /\ relays[r].pc # "idle"
    /\ relays' = [relays EXCEPT ![r] = IdleRelay]
    /\ UNCHANGED <<dbVars, nextId, clients, nextEventId, logVars, workers, applyLog, signalled>>

\* ------------------------------------------------------------------ worker
\* backoff: the time.Sleep before the current attempt, in seconds.
IdleWorker(pos) ==
    [pc |-> "fetch", off |-> 0, pos |-> pos, attempt |-> 0, lastErr |-> "",
     claimed |-> FALSE, txLocked |-> FALSE, acctLocked |-> FALSE,
     staleTx |-> FALSE, staleAcct |-> FALSE, snapStatus |-> "", balance |-> 0,
     backoff |-> 0]

\* The envelope and payload of the message worker w is processing.
EnvelopeOf(w) == topic[workers[w].off].value
PayloadOf(w) == EnvelopeOf(w).payload

\* Worker w has an open database transaction.
InTx(w) == workers[w].pc \in {"insertwait", "status", "lock", "fail", "balance"}

\* checkQuery: the committed processed_events rows with this event_id.
ProcessedRows(eventID) ==
    {i \in 1..Len(processed_events) : processed_events[i].event_id = eventID}

\* processed_events without its primary key: no insert ever conflicts.
ProcessedConflictNoKey(eventID) == FALSE

\* PRIMARY KEY (event_id) with ON CONFLICT DO NOTHING: the insert conflicts
\* with a committed row.
ProcessedConflict(eventID) == ProcessedRows(eventID) # {}

\* Another open transaction holds an uncommitted processed_events row with
\* the same event_id: the insert waits for it.
InsertWaits(w) ==
    \E v \in WorkerIds \ {w} :
        workers[v].claimed /\ EnvelopeOf(v).event_id = EnvelopeOf(w).event_id

\* Another open transaction holds the row lock of w's transactions row.
TxRowLocked(w) ==
    \E v \in WorkerIds \ {w} :
        workers[v].txLocked /\ PayloadOf(v).transaction_id = PayloadOf(w).transaction_id

\* Another open transaction holds the FOR UPDATE lock of w's account row.
AccountLocked(w) ==
    \E v \in WorkerIds \ {w} :
        workers[v].acctLocked /\ PayloadOf(v).account_id = PayloadOf(w).account_id

\* The deferred tx.Rollback(): the write set and the locks are dropped.
Rollback(wk) ==
    [wk EXCEPT !.claimed = FALSE, !.txLocked = FALSE, !.acctLocked = FALSE,
               !.staleTx = FALSE, !.staleAcct = FALSE, !.snapStatus = "",
               !.balance = 0]

\* A retry loop that looks at the error alone: a business failure is retried
\* like any other error and dead-lettered when the attempts are used up.
ReturnedRetriesAll(wk, shouldRetry, err) ==
    LET base == [Rollback(wk) EXCEPT !.lastErr = err]
    IN IF err = "" THEN [base EXCEPT !.pc = "offset"]
       ELSE IF wk.attempt + 1 < MaxRetries
            THEN [base EXCEPT !.pc = "check", !.attempt = wk.attempt + 1,
                              !.backoff = (wk.attempt + 1) * RetryBackoff]
       ELSE [base EXCEPT !.pc = "dlq"]

\* A retry loop that runs while attempt <= maxRetries: one attempt too many.
ReturnedExtraAttempt(wk, shouldRetry, err) ==
    LET base == [Rollback(wk) EXCEPT !.lastErr = err]
    IN IF ~shouldRetry THEN [base EXCEPT !.pc = "offset"]
       ELSE IF wk.attempt + 1 <= MaxRetries
            THEN [base EXCEPT !.pc = "check", !.attempt = wk.attempt + 1,
                              !.backoff = (wk.attempt + 1) * RetryBackoff]
       ELSE IF err # "" THEN [base EXCEPT !.pc = "dlq"]
       ELSE [base EXCEPT !.pc = "offset"]

\* The retry loop of processMessage after ProcessTransactionCreated returned
\* (shouldRetry, err): next attempt after a sleep of attempt * retryBackoff,
\* DLQ, or offset commit.
Returned(wk, shouldRetry, err) ==
    LET base == [Rollback(wk) EXCEPT !.lastErr = err]
    IN IF ~shouldRetry THEN [base EXCEPT !.pc = "offset"]
       ELSE IF wk.attempt + 1 < MaxRetries
            THEN [base EXCEPT !.pc = "check", !.attempt = wk.attempt + 1,
                              !.backoff = (wk.attempt + 1) * RetryBackoff]
       ELSE IF err # "" THEN [base EXCEPT !.pc = "dlq"]
       ELSE [base EXCEPT !.pc = "offset"]

\* newBalance of ProcessTransactionCreated.
NewBalance(currentBalance, payload) ==
    IF payload.type = "CREDIT"
    THEN WrapInt64(currentBalance + payload.amount_cents)
    ELSE WrapInt64(currentBalance - payload.amount_cents)

\* The business rule tested on the wrong type: debits are never refused.
InsufficientBalanceOnCredit(currentBalance, payload) ==
    NewBalance(currentBalance, payload) < 0 /\ payload.type = "CREDIT"

\* The business rule: a debit must not make the balance negative.
InsufficientBalance(currentBalance, payload) ==
    NewBalance(currentBalance, payload) < 0 /\ payload.type = "DEBIT"

\* failureReason: "insufficient balance: current=%d, debit=%d".
FailureReason(currentBalance, payload) ==
    [text |-> "insufficient balance", current |-> currentBalance,
     debit |-> payload.amount_cents]

\* A message whose body is not the JSON of an envelope.
InvalidMessage == [key |-> "", value |-> [invalid |-> TRUE], headers |-> <<>>]

\* json.Unmarshal(msg.Value, &envelope) succeeds.
Parses(msg) == "event_id" \in DOMAIN msg.value

\* Another producer writes a message that is not an envelope to the topic.
produceInvalid ==
    /\ Cardinality({i \in 1..Len(topic) : ~Parses(topic[i])}) < MaxInvalid
    /\ topic' = Append(topic, InvalidMessage)
    /\ UNCHANGED <<dbVars, nextId, clients, relays, nextEventId, dlq, committedOffset,
                   dlqFailed, workers, applyLog, signalled>>

\* json.Unmarshal(envelope.Payload, &payload) succeeds.
PayloadParses(envelope) == "transaction_id" \in DOMAIN envelope.payload

\* A message whose body is an envelope with a payload that is not the JSON of
\* a TransactionCreatedPayload; n numbers the envelopes of that producer.
BadPayloadMessage(n) ==
    [key |-> "",
     value |-> [event_id |-> EventId(MaxEvents + n), event_type |-> "transaction.created",
                occurred_at |-> 0, trace_id |-> "", idempotency_key |-> "",
                aggregate_id |-> 0, payload |-> [invalid |-> TRUE]],
     headers |-> <<>>]

\* The messages of the topic whose envelope parses and whose payload does not.
BadPayloads ==
    {i \in 1..Len(topic) : Parses(topic[i]) /\ ~PayloadParses(topic[i].value)}

\* Another producer writes an envelope with an unparseable payload to the
\* topic.
produceBadPayload ==
    /\ Cardinality(BadPayloads) < MaxInvalid
    /\ topic' = Append(topic, BadPayloadMessage(Cardinality(BadPayloads) + 1))
    /\ UNCHANGED <<dbVars, nextId, clients, relays, nextEventId, dlq, committedOffset,
                   dlqFailed, workers, applyLog, signalled>>

\* A processMessage that returns on the parse error without committing the
\* offset of the invalid message.
FetchMessageSkipsInvalid(w) ==
    /\ workers[w].pc = "fetch"
    /\ workers[w].pos <= Len(topic)
    /\ workers' = [workers EXCEPT ![w].pc = IF Parses(topic[workers[w].pos])
                                           THEN "check" ELSE "fetch",
                      ![w].off = workers[w].pos,
                      ![w].pos = workers[w].pos + 1, ![w].attempt = 0,
                      ![w].lastErr = ""]
    /\ dlqFailed' = dlqFailed \ {workers[w].pos}
    /\ UNCHANGED <<dbVars, nextId, clients, relays, nextEventId, topic, dlq,
                   committedOffset, applyLog, signalled>>

\* reader.FetchMessage: the next message of the partition, parsed. A body
\* that does not parse sends processMessage straight to the offset commit.
FetchMessage(w) ==
    /\ Live("worker")
    /\ workers[w].pc = "fetch"
    /\ workers[w].pos <= Len(topic)
    /\ workers' = [workers EXCEPT ![w].pc = IF Parses(topic[workers[w].pos])
                                           THEN "check" ELSE "offset",
                      ![w].off = workers[w].pos,
                      ![w].pos = workers[w].pos + 1, ![w].attempt = 0,
                      ![w].lastErr = ""]
    /\ dlqFailed' = dlqFailed \ {workers[w].pos}
    /\ UNCHANGED <<dbVars, nextId, clients, relays, nextEventId, topic, dlq,
                   committedOffset, applyLog, signalled>>

\* A payload parse failure reported as retryable: (true, err).
unmarshalPayloadRetryable(w) ==
    /\ workers[w].pc = "check"
    /\ ~PayloadParses(EnvelopeOf(w))
    /\ workers' = [workers EXCEPT ![w] =
                      Returned(workers[w], TRUE, "failed to unmarshal payload")]
    /\ UNCHANGED <<dbVars, nextId, clients, relays, nextEventId, logVars, applyLog, signalled>>

\* json.Unmarshal of the payload fails at the head of
\* ProcessTransactionCreated, before any statement: (false, err).
unmarshalPayload(w) ==
    /\ workers[w].pc = "check"
    /\ ~PayloadParses(EnvelopeOf(w))
    /\ workers' = [workers EXCEPT ![w] =
                      Returned(workers[w], FALSE, "failed to unmarshal payload")]
    /\ UNCHANGED <<dbVars, nextId, clients, relays, nextEventId, logVars, applyLog, signalled>>

\* checkQuery: already processed -> (false, nil); otherwise BeginTx.
checkQuery(w) ==
    /\ Live("worker")
    /\ workers[w].pc = "check"
    /\ PayloadParses(EnvelopeOf(w))
    /\ workers' = [workers EXCEPT ![w] =
          IF ProcessedRows(EnvelopeOf(w).event_id) # {}
          THEN Returned(workers[w], FALSE, "")
          ELSE [workers[w] EXCEPT !.pc = "insert"]]
    /\ UNCHANGED <<dbVars, nextId, clients, relays, nextEventId, logVars, applyLog, signalled>>

\* insertProcessedQuery reaches the server: the transaction's snapshot is
\* taken. A committed row makes rowsAffected 0 (commit, (false, nil)); an
\* uncommitted one makes the statement wait.
insertProcessed(w) ==
    /\ Live("worker")
    /\ workers[w].pc = "insert"
    /\ LET snap == [workers[w] EXCEPT
                      !.snapStatus = transactions[PayloadOf(w).transaction_id].status]
       IN workers' = [workers EXCEPT ![w] =
            IF ProcessedConflict(EnvelopeOf(w).event_id)
            THEN Returned(workers[w], FALSE, "")
            ELSE IF InsertWaits(w) THEN [snap EXCEPT !.pc = "insertwait"]
            ELSE [snap EXCEPT !.pc = "status", !.claimed = TRUE]]
    /\ UNCHANGED <<dbVars, nextId, clients, relays, nextEventId, logVars, applyLog, signalled>>

\* The waiting insert resumes: the other transaction rolled back (the row is
\* inserted) or committed (the conflicting row is not in the snapshot: 40001).
insertResumes(w) ==
    /\ Live("worker")
    /\ workers[w].pc = "insertwait"
    /\ ~InsertWaits(w)
    /\ workers' = [workers EXCEPT ![w] =
            IF ProcessedConflict(EnvelopeOf(w).event_id)
            THEN Returned(workers[w], TRUE, "failed to insert processed event")
            ELSE [workers[w] EXCEPT !.pc = "status", !.claimed = TRUE]]
    /\ UNCHANGED <<dbVars, nextId, clients, relays, nextEventId, logVars, applyLog, signalled>>

\* An UPDATE of w's transactions row waits while another transaction holds the
\* row lock.
CanUpdateTx(w) == workers[w].txLocked \/ ~TxRowLocked(w)

\* An UPDATE of w's transactions row fails (40001): the row was changed by a
\* transaction that committed after w's snapshot.
UpdateFails(w) == ~workers[w].txLocked /\ workers[w].staleTx

\* An updateStatusQuery run on the pool instead of the transaction:
\* PROCESSING is committed at once.
updateStatusAutocommit(w) ==
    /\ Live("worker")
    /\ workers[w].pc = "status"
    /\ workers[w].snapStatus = "PENDING" => CanUpdateTx(w)
    /\ workers' = [workers EXCEPT ![w] =
            IF workers[w].snapStatus # "PENDING"
            THEN [workers[w] EXCEPT !.pc = "lock", !.snapStatus = ""]
            ELSE IF UpdateFails(w)
                 THEN Returned(workers[w], TRUE, "failed to update transaction status")
            ELSE [workers[w] EXCEPT !.pc = "lock", !.snapStatus = "",
                                    !.txLocked = TRUE]]
    /\ transactions' =
          IF workers[w].snapStatus = "PENDING" /\ ~UpdateFails(w)
          THEN [transactions EXCEPT ![PayloadOf(w).transaction_id].status = "PROCESSING"]
          ELSE transactions
    /\ UNCHANGED <<accounts, outbox_events, processed_events, nextId, clients, relays,
                   nextEventId, logVars, applyLog, signalled>>

\* updateStatusQuery: PENDING -> PROCESSING, WHERE id = $1 AND status =
\* 'PENDING'. A row that is not PENDING in the snapshot is not touched.
updateStatus(w) ==
    /\ Live("worker")
    /\ workers[w].pc = "status"
    /\ workers[w].snapStatus = "PENDING" => CanUpdateTx(w)
    /\ workers' = [workers EXCEPT ![w] =
            IF workers[w].snapStatus # "PENDING"
            THEN [workers[w] EXCEPT !.pc = "lock", !.snapStatus = ""]
            ELSE IF UpdateFails(w)
                 THEN Returned(workers[w], TRUE, "failed to update transaction status")
            ELSE [workers[w] EXCEPT !.pc = "lock", !.snapStatus = "",
                                    !.txLocked = TRUE]]
    /\ UNCHANGED <<dbVars, nextId, clients, relays, nextEventId, logVars, applyLog, signalled>>

\* lockAccountQuery (SELECT ... FOR UPDATE), the currency check and the
\* computation of newBalance.
lockAccount(w) ==
    /\ Live("worker")
    /\ workers[w].pc = "lock"
    /\ LET acct == accounts[PayloadOf(w).account_id]
       IN /\ acct # Nil => ~AccountLocked(w)
          /\ workers' = [workers EXCEPT ![w] =
                IF acct = Nil THEN Returned(workers[w], FALSE, "account not found")
                ELSE IF workers[w].staleAcct
                     THEN Returned(workers[w], TRUE, "failed to lock account")
                ELSE IF acct.currency # PayloadOf(w).currency
                     THEN Returned(workers[w], FALSE, "currency mismatch")
                ELSE IF InsufficientBalance(acct.balance_cents, PayloadOf(w))
                     THEN [workers[w] EXCEPT !.pc = "fail", !.acctLocked = TRUE,
                                             !.balance = acct.balance_cents]
                ELSE [workers[w] EXCEPT !.pc = "balance", !.acctLocked = TRUE,
                                        !.balance = acct.balance_cents]]
    /\ UNCHANGED <<dbVars, nextId, clients, relays, nextEventId, logVars, applyLog, signalled>>

\* A commit of worker w's apply transaction makes stale what the other open
\* transactions read of the rows it wrote.
MarkStale(w, wroteBalance, after) ==
    [v \in WorkerIds |->
        IF v = w THEN after
        ELSE IF ~InTx(v) THEN workers[v]
        ELSE [workers[v] EXCEPT
                !.staleTx = @ \/ PayloadOf(v).transaction_id = PayloadOf(w).transaction_id,
                !.staleAcct = @ \/ (wroteBalance /\
                                    PayloadOf(v).account_id = PayloadOf(w).account_id)]]

\* The processed_events row of worker w's write set.
ProcessedRow(w) ==
    [event_id |-> EnvelopeOf(w).event_id, transaction_id |-> PayloadOf(w).transaction_id]

\* The history entry of a committed apply.
Applied(w, status, delta) ==
    [event_id |-> EnvelopeOf(w).event_id, transaction_id |-> PayloadOf(w).transaction_id,
     account_id |-> PayloadOf(w).account_id, status |-> status, delta |-> delta]

\* The insufficient-balance path: failQuery (status FAILED with the failure
\* reason, WHERE id = $2) and a tx.Commit() that succeeds; the call returns
\* (false, "insufficient balance"). failQuery on a row changed after the
\* snapshot fails: (true, err).
failQuery(w) ==
    /\ Live("worker")
    /\ workers[w].pc = "fail"
    /\ CanUpdateTx(w)
    /\ IF UpdateFails(w)
       THEN /\ workers' = [workers EXCEPT ![w] =
                  Returned(workers[w], TRUE, "failed to mark transaction as failed")]
            /\ UNCHANGED <<transactions, processed_events, applyLog>>
       ELSE /\ transactions' = [transactions EXCEPT
                  ![PayloadOf(w).transaction_id].status = "FAILED",
                  ![PayloadOf(w).transaction_id].failure_reason =
                        FailureReason(workers[w].balance, PayloadOf(w))]
            /\ processed_events' = Append(processed_events, ProcessedRow(w))
            /\ applyLog' = Append(applyLog, Applied(w, "FAILED", 0))
            /\ workers' = MarkStale(w, FALSE,
                              Returned(workers[w], FALSE, "insufficient balance"))
    /\ UNCHANGED <<accounts, outbox_events, nextId, clients, relays, nextEventId,
                   logVars, signalled>>

\* The insufficient-balance path with a tx.Commit() that fails: its result is
\* ignored and the call still returns (false, "insufficient balance").
failCommitError(w) ==
    /\ workers[w].pc = "fail"
    /\ CanUpdateTx(w)
    /\ ~UpdateFails(w)
    /\ workers' = [workers EXCEPT ![w] = Returned(workers[w], FALSE, "insufficient balance")]
    /\ UNCHANGED <<dbVars, nextId, clients, relays, nextEventId, logVars, applyLog, signalled>>

\* The success path committing the balance and the status without the
\* processed_events row of the same transaction.
commitApplyWithoutRow(w) ==
    /\ Live("worker")
    /\ workers[w].pc = "balance"
    /\ CanUpdateTx(w)
    /\ IF UpdateFails(w)
       THEN /\ workers' = [workers EXCEPT ![w] =
                  Returned(workers[w], TRUE, "failed to mark transaction as processed")]
            /\ UNCHANGED <<accounts, transactions, applyLog>>
       ELSE /\ accounts' = [accounts EXCEPT ![PayloadOf(w).account_id].balance_cents =
                                NewBalance(workers[w].balance, PayloadOf(w))]
            /\ transactions' = [transactions EXCEPT
                  ![PayloadOf(w).transaction_id].status = "PROCESSED"]
            /\ applyLog' = Append(applyLog,
                  Applied(w, "PROCESSED",
                          NewBalance(workers[w].balance, PayloadOf(w)) - workers[w].balance))
            /\ workers' = MarkStale(w, TRUE, Returned(workers[w], FALSE, ""))
    /\ UNCHANGED <<processed_events, outbox_events, nextId, clients, relays, nextEventId,
                   logVars, signalled>>

\* The success path: updateBalanceQuery, markProcessedQuery (WHERE id = $1)
\* and a tx.Commit() that succeeds: balance, PROCESSED and the processed_events
\* row become durable together; (false, nil). markProcessedQuery on a row
\* changed after the snapshot fails: (true, err).
commitApply(w) ==
    /\ Live("worker")
    /\ workers[w].pc = "balance"
    /\ CanUpdateTx(w)
    /\ IF UpdateFails(w)
       THEN /\ workers' = [workers EXCEPT ![w] =
                  Returned(workers[w], TRUE, "failed to mark transaction as processed")]
            /\ UNCHANGED <<accounts, transactions, processed_events, applyLog>>
       ELSE /\ accounts' = [accounts EXCEPT ![PayloadOf(w).account_id].balance_cents =
                                NewBalance(workers[w].balance, PayloadOf(w))]
            /\ transactions' = [transactions EXCEPT
                  ![PayloadOf(w).transaction_id].status = "PROCESSED"]
            /\ processed_events' = Append(processed_events, ProcessedRow(w))
            /\ applyLog' = Append(applyLog,
                  Applied(w, "PROCESSED",
                          NewBalance(workers[w].balance, PayloadOf(w)) - workers[w].balance))
            /\ workers' = MarkStale(w, TRUE, Returned(workers[w], FALSE, ""))
    /\ UNCHANGED <<outbox_events, nextId, clients, relays, nextEventId, logVars,
                   signalled>>

\* The success path with a tx.Commit() that makes the transaction durable and
\* still reports an error: (true, err).
commitApplyErrorCommits(w) ==
    /\ workers[w].pc = "balance"
    /\ CanUpdateTx(w)
    /\ ~UpdateFails(w)
    /\ accounts' = [accounts EXCEPT ![PayloadOf(w).account_id].balance_cents =
                        NewBalance(workers[w].balance, PayloadOf(w))]
    /\ transactions' = [transactions EXCEPT
          ![PayloadOf(w).transaction_id].status = "PROCESSED"]
    /\ processed_events' = Append(processed_events, ProcessedRow(w))
    /\ applyLog' = Append(applyLog,
          Applied(w, "PROCESSED",
                  NewBalance(workers[w].balance, PayloadOf(w)) - workers[w].balance))
    /\ workers' = MarkStale(w, TRUE,
                      Returned(workers[w], TRUE, "failed to commit transaction"))
    /\ UNCHANGED <<outbox_events, nextId, clients, relays, nextEventId, logVars,
                   signalled>>

\* The success path with a tx.Commit() that fails: (true, err).
commitApplyError(w) ==
    /\ workers[w].pc = "balance"
    /\ CanUpdateTx(w)
    /\ ~UpdateFails(w)
    /\ workers' = [workers EXCEPT ![w] =
                      Returned(workers[w], TRUE, "failed to commit transaction")]
    /\ UNCHANGED <<dbVars, nextId, clients, relays, nextEventId, logVars, applyLog, signalled>>

\* A statement of ProcessTransactionCreated fails on a database error:
\* checkQuery, BeginTx or a statement of the transaction. Every such return is
\* (true, err).
databaseError(w) ==
    /\ workers[w].pc \in {"check", "insert", "insertwait", "status", "lock",
                          "fail", "balance"}
    /\ PayloadParses(EnvelopeOf(w))
    /\ workers' = [workers EXCEPT ![w] = Returned(workers[w], TRUE, "database error")]
    /\ UNCHANGED <<dbVars, nextId, clients, relays, nextEventId, logVars, applyLog, signalled>>

\* fmt.Sprintf("%d", n) for n >= 0: the decimal digits of n.
RECURSIVE FormatInt(_)
FormatInt(n) ==
    LET digit(d) == <<"0", "1", "2", "3", "4", "5", "6", "7", "8", "9">>[d + 1]
    IN IF n < 10 THEN digit(n) ELSE FormatInt(n \div 10) \o digit(n % 10)

\* A DLQ message that carries only the three DLQ headers: the headers of the
\* original message are dropped.
DLQMessageWithoutHeaders(msg, partition, offset, err) ==
    [key |-> msg.key, value |-> msg.value,
     headers |->
        <<[key |-> "dlq_reason", value |-> err],
          [key |-> "original_partition", value |-> FormatInt(partition)],
          [key |-> "original_offset", value |-> FormatInt(offset)]>>]

\* kafka.Message written by sendToDLQ.
DLQMessage(msg, partition, offset, err) ==
    [key |-> msg.key, value |-> msg.value,
     headers |-> msg.headers \o
        <<[key |-> "dlq_reason", value |-> err],
          [key |-> "original_partition", value |-> FormatInt(partition)],
          [key |-> "original_offset", value |-> FormatInt(offset)]>>]

\* sendToDLQ succeeds; processMessage goes on to commit the offset.
sendToDLQ(w) ==
    /\ Live("worker")
    /\ workers[w].pc = "dlq"
    /\ Len(dlq) < MaxDLQ
    /\ dlq' = Append(dlq, DLQMessage(topic[workers[w].off], 0, workers[w].off,
                                     workers[w].lastErr))
    /\ workers' = [workers EXCEPT ![w].pc = "offset"]
    /\ UNCHANGED <<dbVars, nextId, clients, relays, nextEventId, topic,
                   committedOffset, dlqFailed, applyLog, signalled>>

\* sendToDLQ fails and its error is only logged: processMessage goes on to
\* commit the offset.
sendToDLQErrorIgnored(w) ==
    /\ workers[w].pc = "dlq"
    /\ workers' = [workers EXCEPT ![w].pc = "offset"]
    /\ UNCHANGED <<dbVars, nextId, clients, relays, nextEventId, logVars, applyLog, signalled>>

\* sendToDLQ fails: processMessage returns without committing the offset.
sendToDLQError(w) ==
    /\ workers[w].pc = "dlq"
    /\ workers' = [workers EXCEPT ![w] = IdleWorker(workers[w].pos)]
    /\ dlqFailed' = dlqFailed \cup {workers[w].off}
    /\ UNCHANGED <<dbVars, nextId, clients, relays, nextEventId, topic, dlq,
                   committedOffset, applyLog, signalled>>

\* reader.CommitMessages(ctx, msg): the group's offset becomes msg.Offset + 1.
CommitMessages(w) ==
    /\ workers[w].pc = "offset"
    /\ committedOffset' = workers[w].off + 1
    /\ workers' = [workers EXCEPT ![w] = IdleWorker(workers[w].pos)]
    /\ UNCHANGED <<dbVars, nextId, clients, relays, nextEventId, topic, dlq,
                   dlqFailed, applyLog, signalled>>

\* reader.CommitMessages fails: "failed to commit message".
CommitMessagesError(w) ==
    /\ workers[w].pc = "offset"
    /\ workers' = [workers EXCEPT ![w] = IdleWorker(workers[w].pos)]
    /\ UNCHANGED <<dbVars, nextId, clients, relays, nextEventId, logVars, applyLog, signalled>>

\* The worker process is restarted (or the partition is reassigned): the open
\* transaction is rolled back and reading resumes at the committed offset.
workerRestart(w) ==
    /\ workers[w].pc # "fetch" \/ workers[w].pos # committedOffset
    /\ workers' = [workers EXCEPT ![w] = IdleWorker(committedOffset)]
    /\ UNCHANGED <<dbVars, nextId, clients, relays, nextEventId, logVars, applyLog, signalled>>

\* An operator sets the status of account a to SUSPENDED (an UPDATE of the
\* accounts row, which waits for a worker's FOR UPDATE lock and makes stale
\* what open transactions read of the row).
suspendAccount(a) ==
    /\ accounts[a] # Nil
    /\ accounts[a].status = "ACTIVE"
    /\ \A w \in WorkerIds :
          ~(workers[w].acctLocked /\ PayloadOf(w).account_id = a)
    /\ accounts' = [accounts EXCEPT ![a] = Suspended(accounts[a])]
    /\ workers' = [w \in WorkerIds |->
          IF InTx(w) /\ PayloadOf(w).account_id = a
          THEN [workers[w] EXCEPT !.staleAcct = TRUE]
          ELSE workers[w]]
    /\ UNCHANGED <<transactions, outbox_events, processed_events, nextId, clients,
                   relays, nextEventId, logVars, applyLog, signalled>>

\* SIGTERM reaches process p ("publisher" or "worker"): the context of
\* signal.NotifyContext is cancelled, and with it every context derived from
\* it.
signal(p) ==
    /\ p \notin signalled
    /\ signalled' = signalled \cup {p}
    /\ UNCHANGED <<dbVars, nextId, clients, relays, nextEventId, topic, dlq,
                   committedOffset, dlqFailed, workers, applyLog>>

\* publishEvent under a cancelled context: WriteMessages fails, the UPDATE of
\* updateEventError fails too (its error is dropped), the loop continues.
publishCancelled(r) ==
    /\ ~Live("publisher")
    /\ relays[r].pc = "publish"
    /\ relays' = [relays EXCEPT ![r] = NextEvent(r)]
    /\ UNCHANGED <<dbVars, nextId, clients, nextEventId, logVars, workers, applyLog,
                   signalled>>

\* markAsPublished under a cancelled context: ExecContext fails, the error is
\* logged.
markCancelled(r) == ~Live("publisher") /\ markAsPublishedError(r)

\* The publisher's batch after its context was cancelled.
RelayCancelled(r) ==
    \/ publishCancelled(r)
    \/ markCancelled(r)

\* A statement of ProcessTransactionCreated under a cancelled context:
\* (true, err).
statementCancelled(w) == ~Live("worker") /\ databaseError(w)

\* The tx.Commit() of the insufficient-balance path under a cancelled
\* context: its error is dropped, (false, "insufficient balance").
failCommitCancelled(w) == ~Live("worker") /\ failCommitError(w)

\* The tx.Commit() of the success path under a cancelled context: (true, err).
applyCommitCancelled(w) == ~Live("worker") /\ commitApplyError(w)

\* sendToDLQ under a cancelled context: WriteMessages fails, processMessage
\* returns without committing.
sendToDLQCancelled(w) == ~Live("worker") /\ sendToDLQError(w)

\* CommitMessages under a cancelled context returns ctx.Err() (when its
\* select takes ctx.Done(); when it takes the queue of commit requests the
\* offset is committed: CommitMessages).
commitMessagesCancelled(w) == ~Live("worker") /\ CommitMessagesError(w)

\* processMessage after the worker's context was cancelled.
ApplyCancelled(w) ==
    \/ statementCancelled(w)
    \/ failCommitCancelled(w)
    \/ applyCommitCancelled(w)
    \/ sendToDLQCancelled(w)
    \/ commitMessagesCancelled(w)

\* ------------------------------------------------------------------ system
Init ==
    /\ accounts = [a \in AccountIds |->
                       IF a = "a1" THEN NewAccount("USD")
                       ELSE IF a = "a3" THEN Suspended(NewAccount("USD"))
                       ELSE Nil]
    /\ transactions = <<>>
    /\ outbox_events = <<>>
    /\ processed_events = <<>>
    /\ nextId = 1
    /\ clients = [c \in ClientIds |-> IdleClient]
    /\ relays = [r \in ReplicaIds |-> IdleRelay]
    /\ nextEventId = 1
    /\ topic = <<>>
    /\ dlq = <<>>
    /\ committedOffset = 1
    /\ workers = [w \in WorkerIds |-> IdleWorker(1)]
    /\ applyLog = <<>>
    /\ dlqFailed = {}
    /\ signalled = {}

\* CreateTransaction of client c, statement by statement.
Ingress(c) ==
    \/ \E req \in OverlapRequests : BeginCreate(c, req)
    \/ InsertTransaction(c)
    \/ InsertOutbox(c)
    \/ CommitCreate(c)
    \/ CreateTransactionError(c)
    \/ Respond(c)

\* The publisher's loop when Kafka and the database answer.
Relay(r) ==
    \/ publishBatch(r)
    \/ publishEvent(r)
    \/ markAsPublished(r)

\* The publisher's failures: a publish that fails, a mark that fails, a crash.
RelayFaults(r) ==
    \/ updateEventError(r)
    \/ markAsPublishedError(r)
    \/ relayRestart(r)

\* processMessage of worker w when Kafka and the database answer.
Apply(w) ==
    \/ FetchMessage(w)
    \/ checkQuery(w)
    \/ insertProcessed(w)
    \/ updateStatus(w)
    \/ lockAccount(w)
    \/ failQuery(w)
    \/ commitApply(w)
    \/ CommitMessages(w)

\* The worker's failures: database errors, failed commits, the DLQ, a restart.
Faults(w) ==
    \/ failCommitError(w)
    \/ commitApplyError(w)
    \/ databaseError(w)
    \/ sendToDLQ(w)
    \/ sendToDLQError(w)
    \/ CommitMessagesError(w)
    \/ workerRestart(w)

\* The pipeline: ingress calls one at a time, a publisher that may fail after
\* publishing, one worker, a database and a log that answer the worker.
Next ==
    \/ \E req \in Requests : CreateTransaction(req)
    \/ \E r \in RelayIds : Relay(r) \/ RelayFaults(r)
    \/ Apply(1)

Spec == Init /\ [][Next]_vars

\* Overlapping ingress calls and the publisher.
NextIngress ==
    \/ \E c \in ClientIds : Ingress(c)
    \/ \E r \in RelayIds : Relay(r)

SpecIngress == Init /\ [][NextIngress]_vars

\* processMessage of worker w for credits, which never take the
\* insufficient-balance path.
ApplyCredit(w) ==
    \/ FetchMessage(w)
    \/ checkQuery(w)
    \/ insertProcessed(w)
    \/ updateStatus(w)
    \/ lockAccount(w)
    \/ commitApply(w)
    \/ CommitMessages(w)

\* Overlapping ingress calls (credits), the publisher and one worker.
NextPipeline ==
    \/ \E c \in ClientIds : Ingress(c)
    \/ \E r \in RelayIds : Relay(r)
    \/ ApplyCredit(1)

SpecPipeline == Init /\ [][NextPipeline]_vars

\* The requests of a client that repeats its calls on account a1.
ReplayRequests ==
    {req \in Requests : req.account_id = "a1" /\ req.currency = "USD"}

\* One client calling CreateTransaction again and again while the publisher
\* and a worker run and an operator suspends the account.
NextReplay ==
    \/ \E req \in ReplayRequests : BeginCreate(1, req)
    \/ InsertTransaction(1)
    \/ InsertOutbox(1)
    \/ CommitCreate(1)
    \/ Respond(1)
    \/ \E r \in RelayIds : Relay(r)
    \/ Apply(1)
    \/ suspendAccount("a1")

SpecReplay == Init /\ [][NextReplay]_vars

\* Two workers of the consumer group reading the same partition.
NextWorkers ==
    \/ \E req \in Requests : CreateTransaction(req)
    \/ \E r \in RelayIds : Relay(r)
    \/ \E w \in WorkerIds : Apply(w) \/ insertResumes(w)

SpecWorkers == Init /\ [][NextWorkers]_vars

\* One worker with a publisher, a database and a log that fail.
NextDLQ ==
    \/ \E req \in Requests : CreateTransaction(req)
    \/ \E r \in RelayIds : Relay(r)
    \/ Apply(1)
    \/ Faults(1)

SpecDLQ == Init /\ [][NextDLQ]_vars

\* Two publisher replicas polling the same outbox table, with Kafka and a
\* database that answer.
NextReplicas ==
    \/ \E req \in Requests : CreateTransaction(req)
    \/ \E r \in ReplicaIds : Relay(r)

SpecReplicas == Init /\ [][NextReplicas]_vars

\* One worker reading a topic to which another producer writes messages that
\* are not envelopes.
NextInvalid ==
    \/ \E req \in Requests : CreateTransaction(req)
    \/ \E r \in RelayIds : Relay(r)
    \/ produceInvalid
    \/ Apply(1)

SpecInvalid == Init /\ [][NextInvalid]_vars

\* One worker reading a topic to which another producer writes envelopes
\* whose payload does not parse; the sends to the DLQ answer.
NextPayload ==
    \/ \E req \in Requests : CreateTransaction(req)
    \/ \E r \in RelayIds : Relay(r)
    \/ produceBadPayload
    \/ Apply(1)
    \/ unmarshalPayload(1)

SpecPayload == Init /\ [][NextPayload]_vars

\* One worker applying transactions of an account that is suspended after
\* they were accepted.
NextSuspend ==
    \/ \E req \in Requests : CreateTransaction(req)
    \/ \E r \in RelayIds : Relay(r)
    \/ \E a \in AccountIds : suspendAccount(a)
    \/ Apply(1)

SpecSuspend == Init /\ [][NextSuspend]_vars

\* The publisher and one worker with a database and a log that answer, each
\* receiving SIGTERM at any moment: from then on the process runs on a
\* cancelled context until its loop returns.
NextShutdown ==
    \/ \E req \in Requests : CreateTransaction(req)
    \/ \E p \in {"publisher", "worker"} : signal(p)
    \/ \E r \in RelayIds : Relay(r) \/ RelayCancelled(r)
    \/ Apply(1)
    \/ ApplyCancelled(1)

SpecShutdown == Init /\ [][NextShutdown]_vars

\* The publisher and one worker with a database and a log that answer, and
\* clients whose amounts reach the largest int64.
NextRange ==
    \/ \E req \in WideRequests : CreateTransaction(req)
    \/ \E r \in RelayIds : Relay(r)
    \/ Apply(1)

SpecRange == Init /\ [][NextRange]_vars

\* A publisher whose Kafka writes fail a bounded number of times per row and
\* one worker, with a database that answers.
NextLive ==
    \/ \E req \in Requests : CreateTransaction(req)
    \/ \E r \in RelayIds : Relay(r) \/ updateEventError(r)
    \/ Apply(1)

\* The ticker loop of OutboxPublisher.Start and the loop of
\* KafkaConsumer.Start never stop: a step of the publisher or of the worker
\* that stays possible is taken.
SpecLive ==
    /\ Init /\ [][NextLive]_vars
    /\ \A r \in RelayIds : WF_vars(Relay(r))
    /\ WF_vars(Apply(1))

\* ------------------------------------------------------------------ claims
\* The committed applies of transaction t, in commit order.
AppliesOf(t) == {i \in 1..Len(applyLog) : applyLog[i].transaction_id = t}

\* The committed applies that changed the balance for transaction t.
BalanceAppliesOf(t) == {i \in AppliesOf(t) : applyLog[i].status = "PROCESSED"}

\* C1: exactly-once effect per transaction. Whatever the relay republishes
\* and however often the applier is delivered an envelope, the amount of a
\* committed transaction is added to or subtracted from its account balance
\* by at most one committed apply (the first half of the claim; the second,
\* that at most one apply sets the status, fails with it).
ExactlyOnceEffect ==
    \A t \in DOMAIN transactions : Cardinality(BalanceAppliesOf(t)) <= 1

\* The committed applies of the envelope with this event_id.
AppliesOfEvent(eventID) == {i \in 1..Len(applyLog) : applyLog[i].event_id = eventID}

\* The payload the relay published under this event_id.
PayloadOfEvent(eventID) ==
    (CHOOSE m \in {topic[i] : i \in 1..Len(topic)} : m.value.event_id = eventID).value.payload

\* The balance change a committed apply of this payload may make.
EffectOf(payload, status) ==
    IF status = "FAILED" THEN 0
    ELSE IF payload.type = "CREDIT" THEN payload.amount_cents
    ELSE 0 - payload.amount_cents

\* Every applied envelope has exactly one processed_events row and one
\* committed apply, whose balance change is the payload amount (PROCESSED) or
\* zero (FAILED).
OneRowPerEnvelope ==
    /\ \A i \in 1..Len(processed_events) :
          /\ Cardinality(ProcessedRows(processed_events[i].event_id)) = 1
          /\ Cardinality(AppliesOfEvent(processed_events[i].event_id)) = 1
    /\ \A i \in 1..Len(applyLog) :
          /\ Cardinality(ProcessedRows(applyLog[i].event_id)) = 1
          /\ applyLog[i].delta =
                EffectOf(PayloadOfEvent(applyLog[i].event_id), applyLog[i].status)

\* Worker w holds a delivery of an envelope whose apply has committed and has
\* not yet read processed_events or passed the insert.
FurtherDelivery(w) ==
    /\ workers[w].pc \in {"check", "insert", "insertwait"}
    /\ ProcessedRows(EnvelopeOf(w).event_id) # {}

\* The step of such a delivery changes no table and ends the call with
\* success, at once or after the retry of a conflicting insert.
FurtherDeliveryIsNoOp ==
    \A w \in WorkerIds :
        (FurtherDelivery(w) /\ workers'[w].pc # workers[w].pc) =>
            /\ UNCHANGED <<accounts, transactions, processed_events>>
            /\ \/ workers'[w].pc = "offset" /\ workers'[w].lastErr = ""
               \/ /\ workers[w].pc = "insertwait"
                  /\ workers'[w].pc = "check"
                  /\ workers'[w].attempt = workers[w].attempt + 1

\* C2: applier idempotency per envelope. For an envelope (fixed event_id)
\* delivered to one worker after the other or to two workers at once,
\* processed_events holds exactly one row with its event_id once an apply
\* committed, the balance changed by the payload amount exactly once
\* (PROCESSED) or by zero (FAILED), and every further delivery returns success
\* without changing accounts, transactions or processed_events.
ApplierIdempotency == []OneRowPerEnvelope /\ [][FurtherDeliveryIsNoOp]_vars

\* C2 witness: an envelope was applied by one worker while the other worker's
\* insert of the same event_id waited; the waiting delivery was retried and
\* then returned success as a duplicate.
ApplierIdempotencyWitness ==
    \E w \in WorkerIds :
        /\ workers[w].pc = "offset"
        /\ workers[w].lastErr = ""
        /\ workers[w].attempt > 0
        /\ Cardinality(AppliesOfEvent(EnvelopeOf(w).event_id)) = 1
        /\ accounts[PayloadOf(w).account_id].balance_cents # 0

\* The sum of amount_cents over the transactions with ids in S.
RECURSIVE SumAmounts(_)
SumAmounts(S) ==
    IF S = {} THEN 0
    ELSE LET t == CHOOSE x \in S : TRUE
         IN transactions[t].amount_cents + SumAmounts(S \ {t})

\* The PROCESSED transactions of this type on account a.
ProcessedOf(a, type) ==
    {t \in DOMAIN transactions :
        /\ transactions[t].account_id = a
        /\ transactions[t].type = type
        /\ transactions[t].status = "PROCESSED"}

\* C3: balance safety. In every committed database state an account's
\* balance_cents equals the sum of the amounts of its PROCESSED CREDIT
\* transactions minus the sum of the amounts of its PROCESSED DEBIT
\* transactions.
BalanceSafety ==
    \A a \in AccountIds :
        accounts[a] # Nil =>
            accounts[a].balance_cents =
                SumAmounts(ProcessedOf(a, "CREDIT")) - SumAmounts(ProcessedOf(a, "DEBIT"))

\* C4: state machine monotonicity. Once a transaction's committed status is
\* PROCESSED or FAILED, no step changes it.
StatusMonotonicity ==
    [][\A t \in DOMAIN transactions :
          transactions[t].status \in {"PROCESSED", "FAILED"} =>
              transactions'[t].status = transactions[t].status]_vars

\* The (account_id, idempotency_key) pairs a request may carry.
Pairs == AccountIds \X IdemKeys

\* At most one row per pair, and a call that returned a transaction returned
\* the id of the row of its pair.
OneRowPerPair ==
    /\ \A p \in Pairs : Cardinality(ExistingTx(p[1], p[2])) <= 1
    /\ \A c \in ClientIds :
          (clients[c].pc = "done" /\ clients[c].resp.ok) =>
              ExistingTx(clients[c].req.account_id, clients[c].req.idempotency_key)
                  = {clients[c].resp.id}

\* A committed row keeps its pair, amount, currency and type.
StoredFieldsKept ==
    \A t \in DOMAIN transactions :
        /\ t \in DOMAIN transactions'
        /\ transactions'[t].account_id = transactions[t].account_id
        /\ transactions'[t].idempotency_key = transactions[t].idempotency_key
        /\ transactions'[t].amount_cents = transactions[t].amount_cents
        /\ transactions'[t].currency = transactions[t].currency
        /\ transactions'[t].type = transactions[t].type

\* C5: ingress idempotency. However often a pair (account_id,
\* idempotency_key) is submitted, with the same or a different body, at most
\* one transaction row exists for it, every successful call returns the id of
\* that row, and the stored amount, currency and type stay those of the first
\* committed call.
IngressIdempotency == []OneRowPerPair /\ [][StoredFieldsKept]_vars

\* C5 witness: a call returned the row of its pair although its body carried
\* another amount than the one the first committed call stored.
IngressIdempotencyWitness ==
    \E c \in ClientIds :
        /\ clients[c].pc = "done"
        /\ clients[c].resp.ok
        /\ clients[c].txID = 0
        /\ transactions[clients[c].resp.id].amount_cents # clients[c].req.amount_cents

\* The outbox rows of aggregate type 'transaction' that refer to transaction t.
OutboxRowsOf(t) ==
    {o \in DOMAIN outbox_events :
        /\ outbox_events[o].aggregate_type = "transaction"
        /\ outbox_events[o].aggregate_id = t}

\* C6: outbox-commit coupling. In every committed database state each
\* transaction row has exactly one outbox row of aggregate type 'transaction'
\* with its id as aggregate_id, PENDING or PUBLISHED; every such outbox row
\* refers to an existing transaction; and a CreateTransaction call that failed
\* left neither the transaction row nor the outbox row of the id it had drawn.
OutboxCoupling ==
    /\ \A t \in DOMAIN transactions :
          /\ Cardinality(OutboxRowsOf(t)) = 1
          /\ \A o \in OutboxRowsOf(t) : outbox_events[o].status \in {"PENDING", "PUBLISHED"}
    /\ \A o \in DOMAIN outbox_events :
          outbox_events[o].aggregate_type = "transaction" =>
              outbox_events[o].aggregate_id \in DOMAIN transactions
    /\ \A c \in ClientIds :
          (clients[c].pc = "done" /\ ~clients[c].resp.ok /\ clients[c].txID # 0) =>
              /\ clients[c].txID \notin DOMAIN transactions
              /\ OutboxRowsOf(clients[c].txID) = {}

\* C6 witness: one call committed and its outbox row has been published and
\* marked, while another call failed after its insert.
OutboxCouplingWitness ==
    /\ \E t \in DOMAIN transactions :
          \E o \in OutboxRowsOf(t) : outbox_events[o].status = "PUBLISHED"
    /\ \E c \in ClientIds :
          clients[c].pc = "done" /\ ~clients[c].resp.ok /\ clients[c].txID # 0

\* Worker w read the balance under the account lock and found a DEBIT whose
\* amount exceeds it.
DebitExceedsBalance(w) ==
    /\ PayloadOf(w).type = "DEBIT"
    /\ PayloadOf(w).amount_cents > accounts[PayloadOf(w).account_id].balance_cents

\* No balance is negative; the balance a worker read under the lock is the
\* current one, the worker is on the insufficient-balance path exactly when
\* its DEBIT exceeds it; and a committed FAILED apply changed no balance.
NeverOverdrawn ==
    /\ \A a \in AccountIds : accounts[a] # Nil => accounts[a].balance_cents >= 0
    /\ \A w \in WorkerIds :
          workers[w].pc \in {"fail", "balance"} =>
              /\ workers[w].balance = accounts[PayloadOf(w).account_id].balance_cents
              /\ (workers[w].pc = "fail") = DebitExceedsBalance(w)
    /\ \A i \in 1..Len(applyLog) : applyLog[i].status = "FAILED" => applyLog[i].delta = 0

\* The step that ends the insufficient-balance path commits FAILED with the
\* reason, the current balance and the attempted amount, and leaves accounts
\* as they are.
FailedIsCommitted ==
    \A w \in WorkerIds :
        (workers[w].pc = "fail" /\ workers'[w].pc # "fail") =>
            /\ transactions'[PayloadOf(w).transaction_id].status = "FAILED"
            /\ transactions'[PayloadOf(w).transaction_id].failure_reason =
                  [text |-> "insufficient balance",
                   current |-> accounts[PayloadOf(w).account_id].balance_cents,
                   debit |-> PayloadOf(w).amount_cents]
            /\ accounts' = accounts

BusinessFailureRecorded ==
    \A w \in WorkerIds :
        (workers[w].pc = "offset"
            /\ workers[w].lastErr \in {"currency mismatch", "account not found"}) =>
            /\ transactions[PayloadOf(w).transaction_id].status = "FAILED"
            /\ transactions[PayloadOf(w).transaction_id].failure_reason # Nil

\* The messages of the DLQ topic written for the message at this offset.
DLQWritesOf(off) ==
    {i \in 1..Len(dlq) :
        /\ dlq[i].key = topic[off].key
        /\ dlq[i].value = topic[off].value
        /\ dlq[i].headers[Len(dlq[i].headers)] = [key |-> "original_offset", value |-> FormatInt(off)]}

\* C9: no silent drops. Whenever the applier commits the consumer offset of a
\* message, the message's transaction is PROCESSED or FAILED in the database
\* or the message has been written to the DLQ topic.
NoSilentDrops ==
    [][\A w \in WorkerIds :
          (workers[w].pc = "offset" /\ workers'[w].pc = "fetch"
              /\ committedOffset' = workers[w].off + 1) =>
              \/ transactions[PayloadOf(w).transaction_id].status \in {"PROCESSED", "FAILED"}
              \/ DLQWritesOf(workers[w].off) # {}]_vars

\* The errors ProcessTransactionCreated returns as non-retryable, and success.
NonRetryable == {"", "insufficient balance", "currency mismatch", "account not found"}

\* Worker w is about to commit the offset of a message whose retries were
\* exhausted.
CommitsExhausted(w) ==
    workers[w].pc = "offset" /\ workers[w].lastErr \notin NonRetryable

\* A worker about to commit the offset of an exhausted message has had its
\* DLQ write acknowledged: the DLQ holds the message with its last error.
DLQWrittenBeforeCommit ==
    \A w \in WorkerIds :
        CommitsExhausted(w) =>
            \E i \in DLQWritesOf(workers[w].off) :
                dlq[i] = DLQMessage(topic[workers[w].off], 0, workers[w].off,
                                    workers[w].lastErr)

\* The step of a worker whose retries are exhausted commits no offset, and
\* goes on to the offset commit only by appending the message to the DLQ.
NoCommitWithoutDLQWrite ==
    \A w \in WorkerIds :
        workers[w].pc = "dlq" =>
            /\ committedOffset' = committedOffset
            /\ workers'[w].pc = "offset" =>
                  dlq' = Append(dlq, DLQMessage(topic[workers[w].off], 0, workers[w].off,
                                                workers[w].lastErr))

RedeliveryAfterDLQFailure ==
    \A off \in dlqFailed : committedOffset <= off

\* The first committed apply of transaction t.
FirstApply(t) == CHOOSE i \in AppliesOf(t) : \A j \in AppliesOf(t) : i <= j

\* C12: per-account FIFO. For two transactions on the same account whose
\* ingress commits happened in the order t1, t2 and that are both PROCESSED,
\* the apply of t1 committed before the apply of t2.
PerAccountFIFO ==
    \A t1, t2 \in DOMAIN transactions :
        (/\ transactions[t1].created_at < transactions[t2].created_at
         /\ transactions[t1].account_id = transactions[t2].account_id
         /\ transactions[t1].status = "PROCESSED"
         /\ transactions[t2].status = "PROCESSED") =>
            FirstApply(t1) < FirstApply(t2)

\* A step that records a failed publish of an outbox row leaves the row
\* PENDING.
FailedPublishStaysPending ==
    \A o \in DOMAIN outbox_events :
        outbox_events'[o].publish_attempts > outbox_events[o].publish_attempts =>
            outbox_events'[o].status = "PENDING"

\* The outbox row of transaction t is PUBLISHED and the topic holds an
\* envelope built from it.
Delivered(t) ==
    /\ OutboxId(t) \in DOMAIN outbox_events
    /\ outbox_events[OutboxId(t)].status = "PUBLISHED"
    /\ \E i \in 1..Len(topic) :
          /\ topic[i].key = outbox_events[OutboxId(t)].aggregate_id
          /\ topic[i].value.payload = outbox_events[OutboxId(t)].payload

\* C13: committed implies eventually delivered. With a publisher that keeps
\* ticking and Kafka writes and database updates that eventually succeed,
\* every committed outbox row is eventually published to the topic and marked
\* PUBLISHED; a row whose publish fails stays PENDING (and is selected again
\* on a later tick).
CommittedEventuallyDelivered ==
    /\ [][FailedPublishStaysPending]_vars
    /\ \A t \in TxIds : (OutboxId(t) \in DOMAIN outbox_events) ~> Delivered(t)

\* C13 witness: a row whose first publish failed was selected again,
\* published and marked PUBLISHED.
CommittedEventuallyDeliveredWitness ==
    \E t \in TxIds :
        /\ Delivered(t)
        /\ outbox_events[OutboxId(t)].publish_attempts > 0

\* C14: end-to-end progress. With a publisher and a worker that are
\* scheduled fairly and database and Kafka operations that eventually
\* succeed, every committed transaction eventually reaches PROCESSED or
\* FAILED (a currency-mismatched transaction reaches FAILED).
EndToEndProgress ==
    \A t \in TxIds :
        (t \in DOMAIN transactions) ~>
            (/\ t \in DOMAIN transactions
             /\ transactions[t].status \in {"PROCESSED", "FAILED"})

\* The envelopes of the topic built from outbox row o.
EnvelopesOf(o) ==
    {topic[i].value : i \in {j \in 1..Len(topic) :
                                topic[j].value.aggregate_id = outbox_events[o].aggregate_id}}

\* C15: deterministic envelope ids. All envelopes the publisher has written
\* for one outbox row, over all publish attempts and ticks, carry the same
\* event_id.
DeterministicEnvelopeIds ==
    \A o \in DOMAIN outbox_events :
        \A e1, e2 \in EnvelopesOf(o) : e1.event_id = e2.event_id

\* The messages of the topic written for outbox row o.
PublishesOf(o) ==
    {i \in 1..Len(topic) : topic[i].key = outbox_events[o].aggregate_id}

\* C16: multi-replica relay. With two publisher replicas running publishBatch
\* concurrently (and no failure, so that one replica alone publishes a row
\* once), the rows one replica selected are skipped by the other: no outbox
\* row is published by both.
ReplicasSplitWork ==
    \A o \in DOMAIN outbox_events : Cardinality(PublishesOf(o)) <= 1

\* Client c's insert ends its call on the unique constraint: a row of its
\* pair was committed by another call after c's lookup, and the call does not
\* end on another database error.
LosesRace(c) ==
    /\ clients[c].pc = "insert"
    /\ clients'[c].pc = "done"
    /\ UniqueViolation(clients[c].req.account_id, clients[c].req.idempotency_key)
    /\ clients'[c].resp.error # "failed to create transaction"

\* C17: concurrent ingress race. When two CreateTransaction calls with the
\* same (account_id, idempotency_key) overlap and the later insert fails on
\* the unique constraint, the losing call returns the winning row as a
\* success, with the winner's transaction id.
RaceLoserReturnsWinner ==
    [][\A c \in ClientIds :
          LosesRace(c) =>
              /\ clients'[c].resp.ok
              /\ {clients'[c].resp.id} =
                    ExistingTx(clients[c].req.account_id, clients[c].req.idempotency_key)]_vars

\* The business failures ProcessTransactionCreated returns as non-retryable.
BusinessFailures == {"insufficient balance", "currency mismatch", "account not found"}

\* No worker is about to write a business failure to the DLQ.
NoBusinessFailureAtDLQ ==
    \A w \in WorkerIds :
        workers[w].pc = "dlq" => workers[w].lastErr \notin BusinessFailures

\* The step in which ProcessTransactionCreated returns a business failure
\* ends the retry loop without a further attempt and without a DLQ write;
\* the step after it is the offset commit (or the end of the call), again
\* without a DLQ write.
BusinessFailureEndsLoop ==
    \A w \in WorkerIds :
        /\ (workers[w].pc \in {"lock", "fail"}
                /\ workers'[w].lastErr \in BusinessFailures) =>
              /\ workers'[w].pc = "offset"
              /\ workers'[w].attempt = workers[w].attempt
              /\ dlq' = dlq
        /\ (workers[w].pc = "offset" /\ workers[w].lastErr \in BusinessFailures
                /\ workers'[w] # workers[w]) =>
              /\ workers'[w].pc = "fetch"
              /\ dlq' = dlq
              /\ committedOffset' \in {committedOffset, workers[w].off + 1}

Processing(w) ==
    workers[w].pc \in {"check", "insert", "insertwait", "status", "lock", "fail", "balance"}

\* The processor runs for the attempts 0..N-1 only, the sleep before attempt
\* k is k * retryBackoff (none before the first), and a worker is at the DLQ
\* write only after the N-th attempt returned a retryable error.
AtMostNAttempts ==
    \A w \in WorkerIds :
        /\ workers[w].attempt \in 0..(MaxRetries - 1)
        /\ workers[w].backoff = workers[w].attempt * RetryBackoff
        /\ workers[w].pc = "dlq" =>
              /\ workers[w].attempt = MaxRetries - 1
              /\ workers[w].lastErr \notin NonRetryable

\* A return of ProcessTransactionCreated leads to the next attempt only with
\* a retryable error (the attempt counter grows by one), to the DLQ write only
\* with a retryable error of the N-th attempt, and to the offset commit only
\* with success or a non-retryable error, with no attempt in between; the DLQ
\* topic grows only by the write of a worker whose attempts are used up.
RetryLoopStep ==
    /\ \A w \in WorkerIds :
          Processing(w) =>
              /\ (workers'[w].pc = "check" /\ workers'[w].attempt # workers[w].attempt) =>
                    /\ workers'[w].attempt = workers[w].attempt + 1
                    /\ workers'[w].lastErr \notin NonRetryable
              /\ workers'[w].pc = "dlq" =>
                    /\ workers[w].attempt = MaxRetries - 1
                    /\ workers'[w].lastErr \notin NonRetryable
              /\ workers'[w].pc = "offset" =>
                    /\ workers'[w].lastErr \in NonRetryable
                    /\ workers'[w].attempt = workers[w].attempt
    /\ dlq' # dlq => \E w \in WorkerIds : workers[w].pc = "dlq"

Acknowledged(o) ==
    \E i \in 1..Len(topic) :
        /\ topic[i].key = outbox_events[o].aggregate_id
        /\ topic[i].value.event_type = outbox_events[o].event_type
        /\ topic[i].value.payload = outbox_events[o].payload

\* Every PUBLISHED row has an acknowledged envelope in the topic.
PublishedIsAcknowledged ==
    \A o \in DOMAIN outbox_events :
        outbox_events[o].status = "PUBLISHED" => Acknowledged(o)

\* A row becomes PUBLISHED only by the mark of a publisher whose publish of
\* that row was acknowledged in the same loop iteration; a publisher whose
\* publish did not reach the topic goes on without marking the row.
MarkFollowsAck ==
    /\ \A o \in DOMAIN outbox_events :
          (outbox_events[o].status # "PUBLISHED"
              /\ outbox_events'[o].status = "PUBLISHED") =>
              /\ Acknowledged(o)
              /\ \E r \in ReplicaIds :
                    relays[r].pc = "mark" /\ Head(relays[r].events) = o
    /\ \A r \in ReplicaIds :
          (relays[r].pc = "publish" /\ relays'[r] # relays[r] /\ topic' = topic) =>
              /\ relays'[r].pc # "mark"
              /\ outbox_events'[Head(relays[r].events)].status =
                    outbox_events[Head(relays[r].events)].status

\* C20: publish-before-mark. An outbox row has status PUBLISHED only if the
\* topic has acknowledged at least one envelope built from that row, and the
\* publisher never marks a row PUBLISHED after a failed publish.
PublishBeforeMark == []PublishedIsAcknowledged /\ [][MarkFollowsAck]_vars

\* C20 witness: one row was published and marked PUBLISHED while another,
\* whose publish failed, is still PENDING with no envelope in the topic.
PublishBeforeMarkWitness ==
    \E o1, o2 \in DOMAIN outbox_events :
        /\ outbox_events[o1].status = "PUBLISHED"
        /\ Acknowledged(o1)
        /\ outbox_events[o2].status = "PENDING"
        /\ outbox_events[o2].publish_attempts > 0
        /\ PublishesOf(o2) = {}

\* Publisher r ends its publish of the row at the head of its batch by
\* recording a failure: the outbox table changes while nothing is added to
\* the topic.
PublishFails(r) ==
    /\ relays[r].pc = "publish"
    /\ relays'[r] # relays[r]
    /\ topic' = topic
    /\ outbox_events' # outbox_events

\* The step of a failed publish adds one to the row's publish_attempts, sets
\* last_error, leaves the row PENDING and every other row as it is, and goes
\* on with the rest of the batch.
PublishFailureStep ==
    \A r \in ReplicaIds :
        PublishFails(r) =>
            LET o == Head(relays[r].events)
            IN /\ outbox_events'[o].publish_attempts = outbox_events[o].publish_attempts + 1
               /\ outbox_events'[o].last_error = "failed to write message"
               /\ outbox_events'[o].status = "PENDING"
               /\ outbox_events[o].status = "PENDING"
               /\ \A q \in DOMAIN outbox_events \ {o} : outbox_events'[q] = outbox_events[q]
               /\ DOMAIN outbox_events' = DOMAIN outbox_events
               /\ relays'[r].events = Tail(relays[r].events)
               /\ relays'[r].pc = IF Tail(relays[r].events) = <<>> THEN "idle" ELSE "publish"

AccountMissing(c) == accounts[clients[c].req.account_id] = Nil
AccountInactive(c) ==
    /\ ~AccountMissing(c)
    /\ accounts[clients[c].req.account_id].status # "ACTIVE"

\* C22: ingress account validation. A CreateTransaction call with no row for
\* its (account_id, idempotency_key) fails with "account not found" when the
\* account does not exist and with "account is not active" when its status
\* is not ACTIVE, and no transaction row and no outbox row is committed for
\* such an account.
IngressAccountValidation ==
    /\ \A c \in ClientIds :
          clients[c].pc # "idle" =>
              /\ AccountMissing(c) =>
                    /\ clients[c].pc = "done"
                    /\ clients[c].resp = ErrResp("account not found")
              /\ AccountInactive(c) =>
                    /\ clients[c].pc = "done"
                    /\ clients[c].resp = ErrResp("account is not active")
    /\ \A t \in DOMAIN transactions :
          /\ accounts[transactions[t].account_id] # Nil
          /\ accounts[transactions[t].account_id].status = "ACTIVE"
    /\ \A o \in DOMAIN outbox_events :
          /\ accounts[outbox_events[o].payload.account_id] # Nil
          /\ accounts[outbox_events[o].payload.account_id].status = "ACTIVE"

\* C22 witness: one call was refused for a missing account and another for a
\* suspended one, while a transaction of the active account is committed.
IngressAccountValidationWitness ==
    /\ \E c \in ClientIds :
          clients[c].pc = "done" /\ clients[c].resp = ErrResp("account not found")
    /\ \E c \in ClientIds :
          clients[c].pc = "done" /\ clients[c].resp = ErrResp("account is not active")
    /\ transactions # <<>>

\* Worker w holds a message whose envelope did not parse.
HoldsInvalid(w) ==
    /\ workers[w].pc # "fetch"
    /\ ~Parses(topic[workers[w].off])

\* A message that did not parse is never applied: its worker is at the
\* offset commit, with no attempt made.
InvalidNotApplied ==
    \A w \in WorkerIds :
        HoldsInvalid(w) => workers[w].pc = "offset" /\ workers[w].attempt = 0

\* The fetch of a message that does not parse leads to the offset commit; the
\* step after it commits the offset of that message and leaves the worker at
\* the next message; neither step changes a table or the DLQ topic.
InvalidIsCommitted ==
    \A w \in WorkerIds :
        /\ (workers[w].pc = "fetch" /\ workers'[w] # workers[w]
                /\ ~Parses(topic[workers[w].pos])) =>
              /\ workers'[w].pc = "offset"
              /\ workers'[w].off = workers[w].pos
              /\ UNCHANGED <<accounts, transactions, outbox_events, processed_events, dlq>>
        /\ (HoldsInvalid(w) /\ workers'[w] # workers[w]) =>
              /\ committedOffset' = workers[w].off + 1
              /\ workers'[w].pc = "fetch"
              /\ workers'[w].pos = workers[w].off + 1
              /\ UNCHANGED <<accounts, transactions, outbox_events, processed_events, dlq>>

\* C23: poison messages. When the envelope of a fetched message fails to
\* parse, the applier commits its offset, makes no attempt to apply it,
\* writes nothing to the DLQ and changes no database state, and goes on to
\* the next message.
PoisonMessages == []InvalidNotApplied /\ [][InvalidIsCommitted]_vars

\* C23 witness: the message at offset 1 did not parse, its offset was
\* committed, and the worker went on to apply the envelope at offset 2.
PoisonMessagesWitness ==
    /\ Len(topic) >= 2
    /\ ~Parses(topic[1])
    /\ Parses(topic[2])
    /\ committedOffset = 3
    /\ Len(processed_events) = 1
    /\ dlq = <<>>

\* Worker w ends a call of ProcessTransactionCreated as done (success or
\* non-retryable) for an envelope in the account's currency while the account
\* is SUSPENDED.
EndsOnSuspendedAccount(w) ==
    /\ workers[w].pc \in {"lock", "fail", "balance"}
    /\ workers'[w].pc = "offset"
    /\ accounts[PayloadOf(w).account_id] # Nil
    /\ accounts[PayloadOf(w).account_id].status = "SUSPENDED"
    /\ accounts[PayloadOf(w).account_id].currency = PayloadOf(w).currency

\* C24: inactive account at apply time. When the applier processes an
\* envelope for an account whose status is SUSPENDED at apply time, the
\* transaction is committed as FAILED with a failure reason and the balance
\* is unchanged (the outcome is non-retryable).
InactiveAccountFails ==
    [][\A w \in WorkerIds :
          EndsOnSuspendedAccount(w) =>
              /\ transactions'[PayloadOf(w).transaction_id].status = "FAILED"
              /\ transactions'[PayloadOf(w).transaction_id].failure_reason # Nil
              /\ accounts' = accounts]_vars

\* The message at this offset was applied, or written to the DLQ topic.
FinishedMessage(off) ==
    \/ ProcessedRows(topic[off].value.event_id) # {}
    \/ DLQWritesOf(off) # {}

\* Worker w's apply of its message was cancelled: the context's error ended
\* the last attempt.
ApplyWasCancelled(w) ==
    /\ "worker" \in signalled
    /\ workers[w].pc # "fetch"
    /\ workers[w].lastErr \notin NonRetryable

\* C25: applier shutdown. When the shutdown signal arrives while a message
\* is being applied, processMessage ends only after the message was applied
\* or written to the DLQ and its offset was committed.
ApplierShutdown ==
    [][\A w \in WorkerIds :
          (ApplyWasCancelled(w) /\ workers'[w].pc = "fetch") =>
              /\ FinishedMessage(workers[w].off)
              /\ committedOffset' = workers[w].off + 1]_vars

\* C26: relay shutdown. When the publisher has stopped after the shutdown
\* signal, every outbox row whose message the log acknowledged is marked
\* PUBLISHED.
RelayShutdown ==
    \A r \in RelayIds :
        ("publisher" \in signalled /\ relays[r].pc = "idle") =>
            \A o \in DOMAIN outbox_events :
                Acknowledged(o) => outbox_events[o].status = "PUBLISHED"

\* The sum of the balance changes that the first n committed applies made to
\* account a.
RECURSIVE SumDeltas(_, _)
SumDeltas(a, n) ==
    IF n = 0 THEN 0
    ELSE SumDeltas(a, n - 1)
         + (IF applyLog[n].account_id = a THEN applyLog[n].delta ELSE 0)

\* Every committed apply left its processed_events row.
AppliesHaveRows ==
    \A j \in 1..Len(applyLog) : ProcessedRows(applyLog[j].event_id) # {}

\* Every processed_events row belongs to a committed apply, and its
\* transaction is PROCESSED or FAILED.
RowsHaveApplies ==
    \A i \in 1..Len(processed_events) :
        /\ \E j \in 1..Len(applyLog) :
              /\ applyLog[j].event_id = processed_events[i].event_id
              /\ applyLog[j].transaction_id = processed_events[i].transaction_id
        /\ transactions[processed_events[i].transaction_id].status
              \in {"PROCESSED", "FAILED"}

\* C27: insert-before-act atomicity. In every committed state a
\* processed_events row exists for an envelope exactly when the transaction
\* that applied it committed, its transaction is then PROCESSED or FAILED, and
\* every balance is the sum of the changes made by applies that have a row.
InsertBeforeActAtomicity ==
    /\ RowsHaveApplies
    /\ AppliesHaveRows
    /\ \A a \in DOMAIN accounts :
          accounts[a] # Nil => accounts[a].balance_cents = SumDeltas(a, Len(applyLog))

\* A commit that failed was retried and then committed: a row exists for a
\* PROCESSED and for a FAILED transaction.
InsertBeforeActAtomicityWitness ==
    /\ \E i \in 1..Len(processed_events) :
          transactions[processed_events[i].transaction_id].status = "PROCESSED"
    /\ \E i \in 1..Len(processed_events) :
          transactions[processed_events[i].transaction_id].status = "FAILED"
    /\ \E w \in WorkerIds : workers[w].attempt > 0

\* Worker w's call of ProcessTransactionCreated returns a retryable error in
\* this step: the loop goes to its next attempt or, after the last one, to
\* the DLQ.
ReturnsRetryable(w) ==
    /\ Processing(w)
    /\ \/ workers'[w].pc = "check" /\ workers'[w].attempt = workers[w].attempt + 1
       \/ workers'[w].pc = "dlq"

\* C28: clean retry. When ProcessTransactionCreated returns a retryable error
\* the committed processed_events, accounts and transactions are unchanged,
\* and the next attempt holds nothing of the rolled-back transaction.
CleanRetry ==
    [][\A w \in WorkerIds :
          ReturnsRetryable(w) =>
              /\ UNCHANGED <<processed_events, accounts, transactions>>
              /\ ~workers'[w].claimed]_vars

\* A commit failed after the balance was computed and the next attempt is
\* about to start, with nothing of the envelope committed.
CleanRetryWitness ==
    \E w \in WorkerIds :
        /\ workers[w].pc = "check"
        /\ workers[w].attempt > 0
        /\ workers[w].lastErr = "failed to commit transaction"
        /\ ProcessedRows(EnvelopeOf(w).event_id) = {}
        /\ transactions[PayloadOf(w).transaction_id].status = "PENDING"

\* C29: commit failures are retryable on every path. A call that ended with
\* the terminal outcome "insufficient balance" has committed the FAILED mark
\* and the processed_events row of its envelope.
CommitFailuresRetryable ==
    \A w \in WorkerIds :
        (workers[w].pc = "offset" /\ workers[w].lastErr = "insufficient balance") =>
            /\ ProcessedRows(EnvelopeOf(w).event_id) # {}
            /\ transactions[PayloadOf(w).transaction_id].status = "FAILED"

\* C30: credit range. Every committed CREDIT changed the balance by exactly
\* its amount: the new balance is the mathematical sum and did not wrap
\* around.
CreditRange ==
    \A j \in 1..Len(applyLog) :
        (/\ applyLog[j].status = "PROCESSED"
         /\ transactions[applyLog[j].transaction_id].type = "CREDIT") =>
            applyLog[j].delta = transactions[applyLog[j].transaction_id].amount_cents

\* Message i of the topic was built from a committed outbox row whose
\* transaction row is committed too.
BuiltFromCommittedRow(i) ==
    \E o \in DOMAIN outbox_events :
        /\ topic[i] = Message(topic[i].value.event_id, outbox_events[o])
        /\ outbox_events[o].aggregate_id \in DOMAIN transactions
        /\ outbox_events[o].payload =
              TransactionCreatedPayload(transactions[outbox_events[o].aggregate_id])

\* A worker has fetched the message that carries this envelope id.
Consumed(eventID) ==
    \E w \in WorkerIds : \E i \in 1..Len(topic) :
        /\ i < workers[w].pos
        /\ Parses(topic[i])
        /\ topic[i].value.event_id = eventID

\* In this step a balance changes, and the change is the apply of the
\* envelope a worker fetched from the topic.
BalanceChangeIsApply ==
    \A a \in AccountIds :
        (accounts[a] # Nil /\ accounts'[a].balance_cents # accounts[a].balance_cents) =>
            \E w \in WorkerIds :
                /\ workers[w].pc = "balance"
                /\ Consumed(EnvelopeOf(w).event_id)
                /\ PayloadOf(w).account_id = a
                /\ applyLog' = Append(applyLog, applyLog'[Len(applyLog')])
                /\ applyLog'[Len(applyLog')].event_id = EnvelopeOf(w).event_id

\* C31: no phantom events. Every message of the transactions topic was built
\* from a committed outbox row of a committed transaction, every committed
\* apply is of an envelope fetched from the topic, and a balance changes only
\* in such an apply.
NoPhantomEvents ==
    /\ [](\A i \in 1..Len(topic) : BuiltFromCommittedRow(i))
    /\ [](\A j \in 1..Len(applyLog) : Consumed(applyLog[j].event_id))
    /\ [][BalanceChangeIsApply]_vars

\* A balance was changed by the apply of a fetched envelope while another
\* ingress call holds rows it has not committed.
NoPhantomEventsWitness ==
    /\ \E j \in 1..Len(applyLog) : applyLog[j].delta # 0
    /\ \E c \in ClientIds : clients[c].pc = "commit"

\* Client c starts a call in this step for a pair (account_id,
\* idempotency_key) that already has a transaction row.
StartsReplay(c) ==
    /\ clients[c].pc = "idle"
    /\ clients'[c].pc # "idle"
    /\ ExistingTx(clients'[c].req.account_id, clients'[c].req.idempotency_key) # {}

\* C32: the replay branch comes first and writes nothing. A call for a pair
\* that has a row returns that row with its current status, whatever the
\* status of the row and of the account, and leaves every table as it is.
ReplayWritesNothing ==
    [][\A c \in ClientIds :
          StartsReplay(c) =>
              LET req == clients'[c].req
                  id == CHOOSE t \in ExistingTx(req.account_id, req.idempotency_key) : TRUE
              IN /\ clients'[c].pc = "done"
                 /\ clients'[c].resp = OkResp(transactions[id])
                 /\ UNCHANGED <<transactions, outbox_events, accounts, nextId>>]_vars

\* A replay returned a FAILED transaction of an account that is SUSPENDED by
\* now.
ReplayWritesNothingWitness ==
    \E c \in ClientIds :
        /\ clients[c].pc = "done"
        /\ clients[c].resp.ok
        /\ clients[c].resp.status = "FAILED"
        /\ accounts[clients[c].req.account_id].status = "SUSPENDED"

\* A statement of some CreateTransaction call runs in this step.
IngressStep == clients' # clients

\* Worker w's apply commits on the success path in this step.
SuccessfulApply(w) ==
    /\ workers[w].pc = "balance"
    /\ workers'[w].pc = "offset"
    /\ workers'[w].lastErr = ""

\* C33: account ownership. No statement of CreateTransaction changes an
\* account row, and balance_cents changes only in a successful apply, which
\* changes the balance of the account named in its payload and of no other.
AccountOwnership ==
    [][/\ IngressStep => UNCHANGED accounts
       /\ \A a \in AccountIds :
             (accounts[a] # Nil /\ accounts'[a].balance_cents # accounts[a].balance_cents) =>
                 \E w \in WorkerIds :
                     /\ SuccessfulApply(w)
                     /\ PayloadOf(w).account_id = a
                     /\ \A b \in AccountIds \ {a} : accounts'[b] = accounts[b]]_vars

\* A call of CreateTransaction is about to commit its rows on an account
\* whose balance an apply has changed.
AccountOwnershipWitness ==
    \E c \in ClientIds :
        /\ clients[c].pc = "commit"
        /\ accounts[clients[c].req.account_id].balance_cents # 0

\* The envelope env carries the fields of outbox row o.
CarriesRow(env, o) ==
    /\ env.payload = outbox_events[o].payload
    /\ env.aggregate_id = outbox_events[o].aggregate_id
    /\ env.event_type = outbox_events[o].event_type
    /\ env.occurred_at = outbox_events[o].created_at
    /\ env.event_type = "transaction.created" =>
          env.idempotency_key = env.payload.idempotency_key

\* The payload names the amount, type, currency and account of transaction
\* row t.
PayloadMatchesRow(payload, t) ==
    /\ payload.transaction_id = t.id
    /\ payload.account_id = t.account_id
    /\ payload.amount_cents = t.amount_cents
    /\ payload.type = t.type
    /\ payload.currency = t.currency
    /\ payload.idempotency_key = t.idempotency_key

ParseInt(str) == CHOOSE n \in 0..(Len(topic) + 10) : FormatInt(n) = str

\* DLQ message m was written for the message at offset off with error err.
IsDLQCopyOf(m, off, err) ==
    LET orig == topic[off]
        n == Len(orig.headers)
    IN /\ m.key = orig.key
       /\ m.value = orig.value
       /\ Len(m.headers) = n + 3
       /\ SubSeq(m.headers, 1, n) = orig.headers
       /\ m.headers[n + 1] = [key |-> "dlq_reason", value |-> err]
       /\ m.headers[n + 2].key = "original_partition"
       /\ ParseInt(m.headers[n + 2].value) = 0
       /\ m.headers[n + 3].key = "original_offset"
       /\ ParseInt(m.headers[n + 3].value) = off

\* C35: DLQ message content. The message a worker appends to the DLQ topic
\* has the key and value of the message it is processing and that message's
\* headers followed by dlq_reason (the last error), original_partition and
\* original_offset as decimal strings.
DLQMessageContent ==
    [][\A w \in WorkerIds :
          (workers[w].pc = "dlq" /\ dlq' # dlq) =>
              /\ Len(dlq') = Len(dlq) + 1
              /\ SubSeq(dlq', 1, Len(dlq)) = dlq
              /\ IsDLQCopyOf(dlq'[Len(dlq')], workers[w].off, workers[w].lastErr)]_vars

\* The DLQ holds the copy of the second message of the topic.
DLQMessageContentWitness ==
    \E i \in 1..Len(dlq) :
        /\ Len(topic) >= 2
        /\ IsDLQCopyOf(dlq[i], 2, "database error")

InBatch(r) == {relays[r].events[i] : i \in 1..Len(relays[r].events)}

\* C37: outbox status is monotone with a single relay. A PUBLISHED row stays
\* PUBLISHED, publish_attempts never decreases, a PUBLISHED row is in no batch
\* of the relay after the step, and the relay publishes PENDING rows only.
OutboxMonotone ==
    [][/\ \A o \in DOMAIN outbox_events :
             /\ outbox_events[o].status = "PUBLISHED" =>
                   outbox_events'[o].status = "PUBLISHED"
             /\ outbox_events'[o].publish_attempts >= outbox_events[o].publish_attempts
             /\ outbox_events'[o].status = "PUBLISHED" =>
                   \A r \in RelayIds : o \notin InBatch(r)'
       /\ \A r \in RelayIds :
             (relays[r].pc = "publish" /\ topic' # topic) =>
                 outbox_events[Head(relays[r].events)].status = "PENDING"]_vars

\* The relay is in a batch while another row, whose publish failed once, is
\* PUBLISHED.
OutboxMonotoneWitness ==
    /\ relays[1].pc = "publish"
    /\ \E o \in DOMAIN outbox_events :
          /\ outbox_events[o].status = "PUBLISHED"
          /\ outbox_events[o].publish_attempts > 0

\* C38: dead-lettered messages left no effect. When a worker writes its
\* message to the DLQ, no processed_events row exists for the envelope and no
\* apply of the envelope has committed.
DeadLetteredLeftNoEffect ==
    [][\A w \in WorkerIds :
          (workers[w].pc = "dlq" /\ dlq' # dlq) =>
              /\ ProcessedRows(EnvelopeOf(w).event_id) = {}
              /\ AppliesOfEvent(EnvelopeOf(w).event_id) = {}]_vars

\* Worker w holds a message whose envelope parsed and whose payload does not
\* parse.
HoldsBadPayload(w) ==
    /\ workers[w].pc # "fetch"
    /\ workers[w].off \in BadPayloads

\* Such a message gets the one attempt of the loop, which ends as
\* non-retryable before any statement ran.
BadPayloadOneAttempt ==
    \A w \in WorkerIds :
        HoldsBadPayload(w) =>
            /\ workers[w].attempt = 0
            /\ \/ workers[w].pc = "check"
               \/ /\ workers[w].pc = "offset"
                  /\ workers[w].lastErr = "failed to unmarshal payload"

\* The call returns to the offset commit and the next step commits the
\* offset of the message; neither step changes a table or the DLQ topic.
BadPayloadIsCommitted ==
    \A w \in WorkerIds :
        (HoldsBadPayload(w) /\ workers'[w] # workers[w]) =>
            /\ UNCHANGED <<accounts, transactions, outbox_events, processed_events, dlq>>
            /\ workers[w].pc = "check" =>
                  workers'[w].pc = "offset" /\ committedOffset' = committedOffset
            /\ workers[w].pc = "offset" =>
                  /\ committedOffset' = workers[w].off + 1
                  /\ workers'[w].pc = "fetch"
                  /\ workers'[w].pos = workers[w].off + 1

\* C39: unparseable payload inside a valid envelope. ProcessTransactionCreated
\* returns non-retryable before touching the database, the consumer makes one
\* attempt, writes nothing to the DLQ, commits the offset and leaves
\* processed_events, accounts and transactions unchanged.
UnparseablePayload == []BadPayloadOneAttempt /\ [][BadPayloadIsCommitted]_vars

\* The envelope at offset 1 had a payload that does not parse, its offset was
\* committed, and the worker went on to apply the envelope at offset 2.
UnparseablePayloadWitness ==
    /\ Len(topic) >= 2
    /\ 1 \in BadPayloads
    /\ 2 \notin BadPayloads
    /\ committedOffset = 3
    /\ Len(processed_events) = 1
    /\ dlq = <<>>

====
